---------------------------- MODULE Spec2Model ----------------------------
(***************************************************************************)
(* A model of the AES engine of libfcrypt (aes.c, aes.h, bswap.h): the     *)
(* three key schedules, the decryption-key setup, and the table-driven     *)
(* block encryptor and decryptor.                                          *)
(*                                                                         *)
(* Representation.  A uint32_t is the tuple <<b3, b2, b1, b0>> of its four  *)
(* bytes, most significant first, so that (w >> 24) & 0xff is w[1] and     *)
(* w & 0xff is w[4].  C arrays are functions on 0..n-1; the 256-entry      *)
(* tables are tuples, read at index + 1.                                   *)
(***************************************************************************)
EXTENDS Integers, Sequences, FiniteSets, TLC

(***************************************************************************)
(* Bit operations of C on bytes and on 32-bit words.                       *)
(***************************************************************************)
\* a ^ b and a & b on n-bit values, bit by bit
RECURSIVE BitXor(_, _, _)
BitXor(a, b, n) ==
  IF n = 0 THEN 0
  ELSE (((a % 2) + (b % 2)) % 2) + 2 * BitXor(a \div 2, b \div 2, n - 1)

RECURSIVE BitAnd(_, _, _)
BitAnd(a, b, n) ==
  IF n = 0 THEN 0
  ELSE ((a % 2) * (b % 2)) + 2 * BitAnd(a \div 2, b \div 2, n - 1)

\* the same on four-bit values as tables, and on bytes from the two halves
Xor4 == [a \in 0..15 |-> [b \in 0..15 |-> BitXor(a, b, 4)] @@ << >>] @@ << >>

And4 == [a \in 0..15 |-> [b \in 0..15 |-> BitAnd(a, b, 4)] @@ << >>] @@ << >>

ByteXor(a, b) == 16 * Xor4[a \div 16][b \div 16] + Xor4[a % 16][b % 16]

ByteAnd(a, b) == 16 * And4[a \div 16][b \div 16] + And4[a % 16][b % 16]

\* u ^ v and u & m for 32-bit words
\* u ^ v on pairs <<u, v>> of words; the application evaluates u and v once
XorWords ==
  [p \in Seq(0..255) \X Seq(0..255) |->
     << ByteXor(p[1][1], p[2][1]), ByteXor(p[1][2], p[2][2]),
        ByteXor(p[1][3], p[2][3]), ByteXor(p[1][4], p[2][4]) >>]

Xor32(u, v) == XorWords[<<u, v>>]

And32(u, m) ==
  << ByteAnd(u[1], m[1]), ByteAnd(u[2], m[2]),
     ByteAnd(u[3], m[3]), ByteAnd(u[4], m[4]) >>

\* (w >> sh) & 0xff for sh in {24, 16, 8, 0}
ShrByte(w, sh) == w[4 - (sh \div 8)]

\* ((uint32_t) b) << sh for a byte b and sh in {24, 16, 8, 0}
ShlByte(b, sh) ==
  << IF sh = 24 THEN b ELSE 0, IF sh = 16 THEN b ELSE 0,
     IF sh = 8 THEN b ELSE 0, IF sh = 0 THEN b ELSE 0 >>

Zero32 == <<0, 0, 0, 0>>

MASK3 == <<255, 0, 0, 0>>

MASK2 == <<0, 255, 0, 0>>

MASK1 == <<0, 0, 255, 0>>

MASK0 == <<0, 0, 0, 255>>

(***************************************************************************)
(* bswap.h                                                                 *)
(***************************************************************************)
buff_get_be32(ptr, off) ==
  << ptr[off], ptr[off + 1], ptr[off + 2], ptr[off + 3] >>

buff_put_be32(ptr, off, val) ==
  [ptr EXCEPT ![off] = ShrByte(val, 24),
              ![off + 1] = ShrByte(val, 16),
              ![off + 2] = ShrByte(val, 8),
              ![off + 3] = ShrByte(val, 0)]

(***************************************************************************)
(* aes.h: the rounds, key sizes and round-key array lengths.               *)
(***************************************************************************)
AES128_KEY_SIZE == 16

AES192_KEY_SIZE == 24

AES256_KEY_SIZE == 32

AES128_BLOCK_SIZE == 16

AES128_ROUNDS == 10

AES192_ROUNDS == 12

AES256_ROUNDS == 14

AES128_WORDS == 44

AES192_WORDS == 52

AES256_WORDS == 60

Variants == {128, 192, 256}

KeySize(n) ==
  IF n = 128 THEN AES128_KEY_SIZE
  ELSE IF n = 192 THEN AES192_KEY_SIZE ELSE AES256_KEY_SIZE

Rounds(n) ==
  IF n = 128 THEN AES128_ROUNDS
  ELSE IF n = 192 THEN AES192_ROUNDS ELSE AES256_ROUNDS

Words(n) ==
  IF n = 128 THEN AES128_WORDS
  ELSE IF n = 192 THEN AES192_WORDS ELSE AES256_WORDS

(***************************************************************************)
(* aes.c: round constants and tables.                                      *)
(***************************************************************************)
RCON ==
  << <<1, 0, 0, 0>>, <<2, 0, 0, 0>>, <<4, 0, 0, 0>>, <<8, 0, 0, 0>>,
     <<16, 0, 0, 0>>, <<32, 0, 0, 0>>, <<64, 0, 0, 0>>, <<128, 0, 0, 0>>,
     <<27, 0, 0, 0>>, <<54, 0, 0, 0>> >>

te0 ==
  << <<198,99,99,165>>, <<248,124,124,132>>, <<238,119,119,153>>, <<246,123,123,141>>, <<255,242,242,13>>, <<214,107,107,189>>, <<222,111,111,177>>, <<145,197,197,84>>,
     <<96,48,48,80>>, <<2,1,1,3>>, <<206,103,103,169>>, <<86,43,43,125>>, <<231,254,254,25>>, <<181,215,215,98>>, <<77,171,171,230>>, <<236,118,118,154>>,
     <<143,202,202,69>>, <<31,130,130,157>>, <<137,201,201,64>>, <<250,125,125,135>>, <<239,250,250,21>>, <<178,89,89,235>>, <<142,71,71,201>>, <<251,240,240,11>>,
     <<65,173,173,236>>, <<179,212,212,103>>, <<95,162,162,253>>, <<69,175,175,234>>, <<35,156,156,191>>, <<83,164,164,247>>, <<228,114,114,150>>, <<155,192,192,91>>,
     <<117,183,183,194>>, <<225,253,253,28>>, <<61,147,147,174>>, <<76,38,38,106>>, <<108,54,54,90>>, <<126,63,63,65>>, <<245,247,247,2>>, <<131,204,204,79>>,
     <<104,52,52,92>>, <<81,165,165,244>>, <<209,229,229,52>>, <<249,241,241,8>>, <<226,113,113,147>>, <<171,216,216,115>>, <<98,49,49,83>>, <<42,21,21,63>>,
     <<8,4,4,12>>, <<149,199,199,82>>, <<70,35,35,101>>, <<157,195,195,94>>, <<48,24,24,40>>, <<55,150,150,161>>, <<10,5,5,15>>, <<47,154,154,181>>,
     <<14,7,7,9>>, <<36,18,18,54>>, <<27,128,128,155>>, <<223,226,226,61>>, <<205,235,235,38>>, <<78,39,39,105>>, <<127,178,178,205>>, <<234,117,117,159>>,
     <<18,9,9,27>>, <<29,131,131,158>>, <<88,44,44,116>>, <<52,26,26,46>>, <<54,27,27,45>>, <<220,110,110,178>>, <<180,90,90,238>>, <<91,160,160,251>>,
     <<164,82,82,246>>, <<118,59,59,77>>, <<183,214,214,97>>, <<125,179,179,206>>, <<82,41,41,123>>, <<221,227,227,62>>, <<94,47,47,113>>, <<19,132,132,151>>,
     <<166,83,83,245>>, <<185,209,209,104>>, <<0,0,0,0>>, <<193,237,237,44>>, <<64,32,32,96>>, <<227,252,252,31>>, <<121,177,177,200>>, <<182,91,91,237>>,
     <<212,106,106,190>>, <<141,203,203,70>>, <<103,190,190,217>>, <<114,57,57,75>>, <<148,74,74,222>>, <<152,76,76,212>>, <<176,88,88,232>>, <<133,207,207,74>>,
     <<187,208,208,107>>, <<197,239,239,42>>, <<79,170,170,229>>, <<237,251,251,22>>, <<134,67,67,197>>, <<154,77,77,215>>, <<102,51,51,85>>, <<17,133,133,148>>,
     <<138,69,69,207>>, <<233,249,249,16>>, <<4,2,2,6>>, <<254,127,127,129>>, <<160,80,80,240>>, <<120,60,60,68>>, <<37,159,159,186>>, <<75,168,168,227>>,
     <<162,81,81,243>>, <<93,163,163,254>>, <<128,64,64,192>>, <<5,143,143,138>>, <<63,146,146,173>>, <<33,157,157,188>>, <<112,56,56,72>>, <<241,245,245,4>>,
     <<99,188,188,223>>, <<119,182,182,193>>, <<175,218,218,117>>, <<66,33,33,99>>, <<32,16,16,48>>, <<229,255,255,26>>, <<253,243,243,14>>, <<191,210,210,109>>,
     <<129,205,205,76>>, <<24,12,12,20>>, <<38,19,19,53>>, <<195,236,236,47>>, <<190,95,95,225>>, <<53,151,151,162>>, <<136,68,68,204>>, <<46,23,23,57>>,
     <<147,196,196,87>>, <<85,167,167,242>>, <<252,126,126,130>>, <<122,61,61,71>>, <<200,100,100,172>>, <<186,93,93,231>>, <<50,25,25,43>>, <<230,115,115,149>>,
     <<192,96,96,160>>, <<25,129,129,152>>, <<158,79,79,209>>, <<163,220,220,127>>, <<68,34,34,102>>, <<84,42,42,126>>, <<59,144,144,171>>, <<11,136,136,131>>,
     <<140,70,70,202>>, <<199,238,238,41>>, <<107,184,184,211>>, <<40,20,20,60>>, <<167,222,222,121>>, <<188,94,94,226>>, <<22,11,11,29>>, <<173,219,219,118>>,
     <<219,224,224,59>>, <<100,50,50,86>>, <<116,58,58,78>>, <<20,10,10,30>>, <<146,73,73,219>>, <<12,6,6,10>>, <<72,36,36,108>>, <<184,92,92,228>>,
     <<159,194,194,93>>, <<189,211,211,110>>, <<67,172,172,239>>, <<196,98,98,166>>, <<57,145,145,168>>, <<49,149,149,164>>, <<211,228,228,55>>, <<242,121,121,139>>,
     <<213,231,231,50>>, <<139,200,200,67>>, <<110,55,55,89>>, <<218,109,109,183>>, <<1,141,141,140>>, <<177,213,213,100>>, <<156,78,78,210>>, <<73,169,169,224>>,
     <<216,108,108,180>>, <<172,86,86,250>>, <<243,244,244,7>>, <<207,234,234,37>>, <<202,101,101,175>>, <<244,122,122,142>>, <<71,174,174,233>>, <<16,8,8,24>>,
     <<111,186,186,213>>, <<240,120,120,136>>, <<74,37,37,111>>, <<92,46,46,114>>, <<56,28,28,36>>, <<87,166,166,241>>, <<115,180,180,199>>, <<151,198,198,81>>,
     <<203,232,232,35>>, <<161,221,221,124>>, <<232,116,116,156>>, <<62,31,31,33>>, <<150,75,75,221>>, <<97,189,189,220>>, <<13,139,139,134>>, <<15,138,138,133>>,
     <<224,112,112,144>>, <<124,62,62,66>>, <<113,181,181,196>>, <<204,102,102,170>>, <<144,72,72,216>>, <<6,3,3,5>>, <<247,246,246,1>>, <<28,14,14,18>>,
     <<194,97,97,163>>, <<106,53,53,95>>, <<174,87,87,249>>, <<105,185,185,208>>, <<23,134,134,145>>, <<153,193,193,88>>, <<58,29,29,39>>, <<39,158,158,185>>,
     <<217,225,225,56>>, <<235,248,248,19>>, <<43,152,152,179>>, <<34,17,17,51>>, <<210,105,105,187>>, <<169,217,217,112>>, <<7,142,142,137>>, <<51,148,148,167>>,
     <<45,155,155,182>>, <<60,30,30,34>>, <<21,135,135,146>>, <<201,233,233,32>>, <<135,206,206,73>>, <<170,85,85,255>>, <<80,40,40,120>>, <<165,223,223,122>>,
     <<3,140,140,143>>, <<89,161,161,248>>, <<9,137,137,128>>, <<26,13,13,23>>, <<101,191,191,218>>, <<215,230,230,49>>, <<132,66,66,198>>, <<208,104,104,184>>,
     <<130,65,65,195>>, <<41,153,153,176>>, <<90,45,45,119>>, <<30,15,15,17>>, <<123,176,176,203>>, <<168,84,84,252>>, <<109,187,187,214>>, <<44,22,22,58>> >>

te1 ==
  << <<165,198,99,99>>, <<132,248,124,124>>, <<153,238,119,119>>, <<141,246,123,123>>, <<13,255,242,242>>, <<189,214,107,107>>, <<177,222,111,111>>, <<84,145,197,197>>,
     <<80,96,48,48>>, <<3,2,1,1>>, <<169,206,103,103>>, <<125,86,43,43>>, <<25,231,254,254>>, <<98,181,215,215>>, <<230,77,171,171>>, <<154,236,118,118>>,
     <<69,143,202,202>>, <<157,31,130,130>>, <<64,137,201,201>>, <<135,250,125,125>>, <<21,239,250,250>>, <<235,178,89,89>>, <<201,142,71,71>>, <<11,251,240,240>>,
     <<236,65,173,173>>, <<103,179,212,212>>, <<253,95,162,162>>, <<234,69,175,175>>, <<191,35,156,156>>, <<247,83,164,164>>, <<150,228,114,114>>, <<91,155,192,192>>,
     <<194,117,183,183>>, <<28,225,253,253>>, <<174,61,147,147>>, <<106,76,38,38>>, <<90,108,54,54>>, <<65,126,63,63>>, <<2,245,247,247>>, <<79,131,204,204>>,
     <<92,104,52,52>>, <<244,81,165,165>>, <<52,209,229,229>>, <<8,249,241,241>>, <<147,226,113,113>>, <<115,171,216,216>>, <<83,98,49,49>>, <<63,42,21,21>>,
     <<12,8,4,4>>, <<82,149,199,199>>, <<101,70,35,35>>, <<94,157,195,195>>, <<40,48,24,24>>, <<161,55,150,150>>, <<15,10,5,5>>, <<181,47,154,154>>,
     <<9,14,7,7>>, <<54,36,18,18>>, <<155,27,128,128>>, <<61,223,226,226>>, <<38,205,235,235>>, <<105,78,39,39>>, <<205,127,178,178>>, <<159,234,117,117>>,
     <<27,18,9,9>>, <<158,29,131,131>>, <<116,88,44,44>>, <<46,52,26,26>>, <<45,54,27,27>>, <<178,220,110,110>>, <<238,180,90,90>>, <<251,91,160,160>>,
     <<246,164,82,82>>, <<77,118,59,59>>, <<97,183,214,214>>, <<206,125,179,179>>, <<123,82,41,41>>, <<62,221,227,227>>, <<113,94,47,47>>, <<151,19,132,132>>,
     <<245,166,83,83>>, <<104,185,209,209>>, <<0,0,0,0>>, <<44,193,237,237>>, <<96,64,32,32>>, <<31,227,252,252>>, <<200,121,177,177>>, <<237,182,91,91>>,
     <<190,212,106,106>>, <<70,141,203,203>>, <<217,103,190,190>>, <<75,114,57,57>>, <<222,148,74,74>>, <<212,152,76,76>>, <<232,176,88,88>>, <<74,133,207,207>>,
     <<107,187,208,208>>, <<42,197,239,239>>, <<229,79,170,170>>, <<22,237,251,251>>, <<197,134,67,67>>, <<215,154,77,77>>, <<85,102,51,51>>, <<148,17,133,133>>,
     <<207,138,69,69>>, <<16,233,249,249>>, <<6,4,2,2>>, <<129,254,127,127>>, <<240,160,80,80>>, <<68,120,60,60>>, <<186,37,159,159>>, <<227,75,168,168>>,
     <<243,162,81,81>>, <<254,93,163,163>>, <<192,128,64,64>>, <<138,5,143,143>>, <<173,63,146,146>>, <<188,33,157,157>>, <<72,112,56,56>>, <<4,241,245,245>>,
     <<223,99,188,188>>, <<193,119,182,182>>, <<117,175,218,218>>, <<99,66,33,33>>, <<48,32,16,16>>, <<26,229,255,255>>, <<14,253,243,243>>, <<109,191,210,210>>,
     <<76,129,205,205>>, <<20,24,12,12>>, <<53,38,19,19>>, <<47,195,236,236>>, <<225,190,95,95>>, <<162,53,151,151>>, <<204,136,68,68>>, <<57,46,23,23>>,
     <<87,147,196,196>>, <<242,85,167,167>>, <<130,252,126,126>>, <<71,122,61,61>>, <<172,200,100,100>>, <<231,186,93,93>>, <<43,50,25,25>>, <<149,230,115,115>>,
     <<160,192,96,96>>, <<152,25,129,129>>, <<209,158,79,79>>, <<127,163,220,220>>, <<102,68,34,34>>, <<126,84,42,42>>, <<171,59,144,144>>, <<131,11,136,136>>,
     <<202,140,70,70>>, <<41,199,238,238>>, <<211,107,184,184>>, <<60,40,20,20>>, <<121,167,222,222>>, <<226,188,94,94>>, <<29,22,11,11>>, <<118,173,219,219>>,
     <<59,219,224,224>>, <<86,100,50,50>>, <<78,116,58,58>>, <<30,20,10,10>>, <<219,146,73,73>>, <<10,12,6,6>>, <<108,72,36,36>>, <<228,184,92,92>>,
     <<93,159,194,194>>, <<110,189,211,211>>, <<239,67,172,172>>, <<166,196,98,98>>, <<168,57,145,145>>, <<164,49,149,149>>, <<55,211,228,228>>, <<139,242,121,121>>,
     <<50,213,231,231>>, <<67,139,200,200>>, <<89,110,55,55>>, <<183,218,109,109>>, <<140,1,141,141>>, <<100,177,213,213>>, <<210,156,78,78>>, <<224,73,169,169>>,
     <<180,216,108,108>>, <<250,172,86,86>>, <<7,243,244,244>>, <<37,207,234,234>>, <<175,202,101,101>>, <<142,244,122,122>>, <<233,71,174,174>>, <<24,16,8,8>>,
     <<213,111,186,186>>, <<136,240,120,120>>, <<111,74,37,37>>, <<114,92,46,46>>, <<36,56,28,28>>, <<241,87,166,166>>, <<199,115,180,180>>, <<81,151,198,198>>,
     <<35,203,232,232>>, <<124,161,221,221>>, <<156,232,116,116>>, <<33,62,31,31>>, <<221,150,75,75>>, <<220,97,189,189>>, <<134,13,139,139>>, <<133,15,138,138>>,
     <<144,224,112,112>>, <<66,124,62,62>>, <<196,113,181,181>>, <<170,204,102,102>>, <<216,144,72,72>>, <<5,6,3,3>>, <<1,247,246,246>>, <<18,28,14,14>>,
     <<163,194,97,97>>, <<95,106,53,53>>, <<249,174,87,87>>, <<208,105,185,185>>, <<145,23,134,134>>, <<88,153,193,193>>, <<39,58,29,29>>, <<185,39,158,158>>,
     <<56,217,225,225>>, <<19,235,248,248>>, <<179,43,152,152>>, <<51,34,17,17>>, <<187,210,105,105>>, <<112,169,217,217>>, <<137,7,142,142>>, <<167,51,148,148>>,
     <<182,45,155,155>>, <<34,60,30,30>>, <<146,21,135,135>>, <<32,201,233,233>>, <<73,135,206,206>>, <<255,170,85,85>>, <<120,80,40,40>>, <<122,165,223,223>>,
     <<143,3,140,140>>, <<248,89,161,161>>, <<128,9,137,137>>, <<23,26,13,13>>, <<218,101,191,191>>, <<49,215,230,230>>, <<198,132,66,66>>, <<184,208,104,104>>,
     <<195,130,65,65>>, <<176,41,153,153>>, <<119,90,45,45>>, <<17,30,15,15>>, <<203,123,176,176>>, <<252,168,84,84>>, <<214,109,187,187>>, <<58,44,22,22>> >>

te2 ==
  << <<99,165,198,99>>, <<124,132,248,124>>, <<119,153,238,119>>, <<123,141,246,123>>, <<242,13,255,242>>, <<107,189,214,107>>, <<111,177,222,111>>, <<197,84,145,197>>,
     <<48,80,96,48>>, <<1,3,2,1>>, <<103,169,206,103>>, <<43,125,86,43>>, <<254,25,231,254>>, <<215,98,181,215>>, <<171,230,77,171>>, <<118,154,236,118>>,
     <<202,69,143,202>>, <<130,157,31,130>>, <<201,64,137,201>>, <<125,135,250,125>>, <<250,21,239,250>>, <<89,235,178,89>>, <<71,201,142,71>>, <<240,11,251,240>>,
     <<173,236,65,173>>, <<212,103,179,212>>, <<162,253,95,162>>, <<175,234,69,175>>, <<156,191,35,156>>, <<164,247,83,164>>, <<114,150,228,114>>, <<192,91,155,192>>,
     <<183,194,117,183>>, <<253,28,225,253>>, <<147,174,61,147>>, <<38,106,76,38>>, <<54,90,108,54>>, <<63,65,126,63>>, <<247,2,245,247>>, <<204,79,131,204>>,
     <<52,92,104,52>>, <<165,244,81,165>>, <<229,52,209,229>>, <<241,8,249,241>>, <<113,147,226,113>>, <<216,115,171,216>>, <<49,83,98,49>>, <<21,63,42,21>>,
     <<4,12,8,4>>, <<199,82,149,199>>, <<35,101,70,35>>, <<195,94,157,195>>, <<24,40,48,24>>, <<150,161,55,150>>, <<5,15,10,5>>, <<154,181,47,154>>,
     <<7,9,14,7>>, <<18,54,36,18>>, <<128,155,27,128>>, <<226,61,223,226>>, <<235,38,205,235>>, <<39,105,78,39>>, <<178,205,127,178>>, <<117,159,234,117>>,
     <<9,27,18,9>>, <<131,158,29,131>>, <<44,116,88,44>>, <<26,46,52,26>>, <<27,45,54,27>>, <<110,178,220,110>>, <<90,238,180,90>>, <<160,251,91,160>>,
     <<82,246,164,82>>, <<59,77,118,59>>, <<214,97,183,214>>, <<179,206,125,179>>, <<41,123,82,41>>, <<227,62,221,227>>, <<47,113,94,47>>, <<132,151,19,132>>,
     <<83,245,166,83>>, <<209,104,185,209>>, <<0,0,0,0>>, <<237,44,193,237>>, <<32,96,64,32>>, <<252,31,227,252>>, <<177,200,121,177>>, <<91,237,182,91>>,
     <<106,190,212,106>>, <<203,70,141,203>>, <<190,217,103,190>>, <<57,75,114,57>>, <<74,222,148,74>>, <<76,212,152,76>>, <<88,232,176,88>>, <<207,74,133,207>>,
     <<208,107,187,208>>, <<239,42,197,239>>, <<170,229,79,170>>, <<251,22,237,251>>, <<67,197,134,67>>, <<77,215,154,77>>, <<51,85,102,51>>, <<133,148,17,133>>,
     <<69,207,138,69>>, <<249,16,233,249>>, <<2,6,4,2>>, <<127,129,254,127>>, <<80,240,160,80>>, <<60,68,120,60>>, <<159,186,37,159>>, <<168,227,75,168>>,
     <<81,243,162,81>>, <<163,254,93,163>>, <<64,192,128,64>>, <<143,138,5,143>>, <<146,173,63,146>>, <<157,188,33,157>>, <<56,72,112,56>>, <<245,4,241,245>>,
     <<188,223,99,188>>, <<182,193,119,182>>, <<218,117,175,218>>, <<33,99,66,33>>, <<16,48,32,16>>, <<255,26,229,255>>, <<243,14,253,243>>, <<210,109,191,210>>,
     <<205,76,129,205>>, <<12,20,24,12>>, <<19,53,38,19>>, <<236,47,195,236>>, <<95,225,190,95>>, <<151,162,53,151>>, <<68,204,136,68>>, <<23,57,46,23>>,
     <<196,87,147,196>>, <<167,242,85,167>>, <<126,130,252,126>>, <<61,71,122,61>>, <<100,172,200,100>>, <<93,231,186,93>>, <<25,43,50,25>>, <<115,149,230,115>>,
     <<96,160,192,96>>, <<129,152,25,129>>, <<79,209,158,79>>, <<220,127,163,220>>, <<34,102,68,34>>, <<42,126,84,42>>, <<144,171,59,144>>, <<136,131,11,136>>,
     <<70,202,140,70>>, <<238,41,199,238>>, <<184,211,107,184>>, <<20,60,40,20>>, <<222,121,167,222>>, <<94,226,188,94>>, <<11,29,22,11>>, <<219,118,173,219>>,
     <<224,59,219,224>>, <<50,86,100,50>>, <<58,78,116,58>>, <<10,30,20,10>>, <<73,219,146,73>>, <<6,10,12,6>>, <<36,108,72,36>>, <<92,228,184,92>>,
     <<194,93,159,194>>, <<211,110,189,211>>, <<172,239,67,172>>, <<98,166,196,98>>, <<145,168,57,145>>, <<149,164,49,149>>, <<228,55,211,228>>, <<121,139,242,121>>,
     <<231,50,213,231>>, <<200,67,139,200>>, <<55,89,110,55>>, <<109,183,218,109>>, <<141,140,1,141>>, <<213,100,177,213>>, <<78,210,156,78>>, <<169,224,73,169>>,
     <<108,180,216,108>>, <<86,250,172,86>>, <<244,7,243,244>>, <<234,37,207,234>>, <<101,175,202,101>>, <<122,142,244,122>>, <<174,233,71,174>>, <<8,24,16,8>>,
     <<186,213,111,186>>, <<120,136,240,120>>, <<37,111,74,37>>, <<46,114,92,46>>, <<28,36,56,28>>, <<166,241,87,166>>, <<180,199,115,180>>, <<198,81,151,198>>,
     <<232,35,203,232>>, <<221,124,161,221>>, <<116,156,232,116>>, <<31,33,62,31>>, <<75,221,150,75>>, <<189,220,97,189>>, <<139,134,13,139>>, <<138,133,15,138>>,
     <<112,144,224,112>>, <<62,66,124,62>>, <<181,196,113,181>>, <<102,170,204,102>>, <<72,216,144,72>>, <<3,5,6,3>>, <<246,1,247,246>>, <<14,18,28,14>>,
     <<97,163,194,97>>, <<53,95,106,53>>, <<87,249,174,87>>, <<185,208,105,185>>, <<134,145,23,134>>, <<193,88,153,193>>, <<29,39,58,29>>, <<158,185,39,158>>,
     <<225,56,217,225>>, <<248,19,235,248>>, <<152,179,43,152>>, <<17,51,34,17>>, <<105,187,210,105>>, <<217,112,169,217>>, <<142,137,7,142>>, <<148,167,51,148>>,
     <<155,182,45,155>>, <<30,34,60,30>>, <<135,146,21,135>>, <<233,32,201,233>>, <<206,73,135,206>>, <<85,255,170,85>>, <<40,120,80,40>>, <<223,122,165,223>>,
     <<140,143,3,140>>, <<161,248,89,161>>, <<137,128,9,137>>, <<13,23,26,13>>, <<191,218,101,191>>, <<230,49,215,230>>, <<66,198,132,66>>, <<104,184,208,104>>,
     <<65,195,130,65>>, <<153,176,41,153>>, <<45,119,90,45>>, <<15,17,30,15>>, <<176,203,123,176>>, <<84,252,168,84>>, <<187,214,109,187>>, <<22,58,44,22>> >>

te3 ==
  << <<99,99,165,198>>, <<124,124,132,248>>, <<119,119,153,238>>, <<123,123,141,246>>, <<242,242,13,255>>, <<107,107,189,214>>, <<111,111,177,222>>, <<197,197,84,145>>,
     <<48,48,80,96>>, <<1,1,3,2>>, <<103,103,169,206>>, <<43,43,125,86>>, <<254,254,25,231>>, <<215,215,98,181>>, <<171,171,230,77>>, <<118,118,154,236>>,
     <<202,202,69,143>>, <<130,130,157,31>>, <<201,201,64,137>>, <<125,125,135,250>>, <<250,250,21,239>>, <<89,89,235,178>>, <<71,71,201,142>>, <<240,240,11,251>>,
     <<173,173,236,65>>, <<212,212,103,179>>, <<162,162,253,95>>, <<175,175,234,69>>, <<156,156,191,35>>, <<164,164,247,83>>, <<114,114,150,228>>, <<192,192,91,155>>,
     <<183,183,194,117>>, <<253,253,28,225>>, <<147,147,174,61>>, <<38,38,106,76>>, <<54,54,90,108>>, <<63,63,65,126>>, <<247,247,2,245>>, <<204,204,79,131>>,
     <<52,52,92,104>>, <<165,165,244,81>>, <<229,229,52,209>>, <<241,241,8,249>>, <<113,113,147,226>>, <<216,216,115,171>>, <<49,49,83,98>>, <<21,21,63,42>>,
     <<4,4,12,8>>, <<199,199,82,149>>, <<35,35,101,70>>, <<195,195,94,157>>, <<24,24,40,48>>, <<150,150,161,55>>, <<5,5,15,10>>, <<154,154,181,47>>,
     <<7,7,9,14>>, <<18,18,54,36>>, <<128,128,155,27>>, <<226,226,61,223>>, <<235,235,38,205>>, <<39,39,105,78>>, <<178,178,205,127>>, <<117,117,159,234>>,
     <<9,9,27,18>>, <<131,131,158,29>>, <<44,44,116,88>>, <<26,26,46,52>>, <<27,27,45,54>>, <<110,110,178,220>>, <<90,90,238,180>>, <<160,160,251,91>>,
     <<82,82,246,164>>, <<59,59,77,118>>, <<214,214,97,183>>, <<179,179,206,125>>, <<41,41,123,82>>, <<227,227,62,221>>, <<47,47,113,94>>, <<132,132,151,19>>,
     <<83,83,245,166>>, <<209,209,104,185>>, <<0,0,0,0>>, <<237,237,44,193>>, <<32,32,96,64>>, <<252,252,31,227>>, <<177,177,200,121>>, <<91,91,237,182>>,
     <<106,106,190,212>>, <<203,203,70,141>>, <<190,190,217,103>>, <<57,57,75,114>>, <<74,74,222,148>>, <<76,76,212,152>>, <<88,88,232,176>>, <<207,207,74,133>>,
     <<208,208,107,187>>, <<239,239,42,197>>, <<170,170,229,79>>, <<251,251,22,237>>, <<67,67,197,134>>, <<77,77,215,154>>, <<51,51,85,102>>, <<133,133,148,17>>,
     <<69,69,207,138>>, <<249,249,16,233>>, <<2,2,6,4>>, <<127,127,129,254>>, <<80,80,240,160>>, <<60,60,68,120>>, <<159,159,186,37>>, <<168,168,227,75>>,
     <<81,81,243,162>>, <<163,163,254,93>>, <<64,64,192,128>>, <<143,143,138,5>>, <<146,146,173,63>>, <<157,157,188,33>>, <<56,56,72,112>>, <<245,245,4,241>>,
     <<188,188,223,99>>, <<182,182,193,119>>, <<218,218,117,175>>, <<33,33,99,66>>, <<16,16,48,32>>, <<255,255,26,229>>, <<243,243,14,253>>, <<210,210,109,191>>,
     <<205,205,76,129>>, <<12,12,20,24>>, <<19,19,53,38>>, <<236,236,47,195>>, <<95,95,225,190>>, <<151,151,162,53>>, <<68,68,204,136>>, <<23,23,57,46>>,
     <<196,196,87,147>>, <<167,167,242,85>>, <<126,126,130,252>>, <<61,61,71,122>>, <<100,100,172,200>>, <<93,93,231,186>>, <<25,25,43,50>>, <<115,115,149,230>>,
     <<96,96,160,192>>, <<129,129,152,25>>, <<79,79,209,158>>, <<220,220,127,163>>, <<34,34,102,68>>, <<42,42,126,84>>, <<144,144,171,59>>, <<136,136,131,11>>,
     <<70,70,202,140>>, <<238,238,41,199>>, <<184,184,211,107>>, <<20,20,60,40>>, <<222,222,121,167>>, <<94,94,226,188>>, <<11,11,29,22>>, <<219,219,118,173>>,
     <<224,224,59,219>>, <<50,50,86,100>>, <<58,58,78,116>>, <<10,10,30,20>>, <<73,73,219,146>>, <<6,6,10,12>>, <<36,36,108,72>>, <<92,92,228,184>>,
     <<194,194,93,159>>, <<211,211,110,189>>, <<172,172,239,67>>, <<98,98,166,196>>, <<145,145,168,57>>, <<149,149,164,49>>, <<228,228,55,211>>, <<121,121,139,242>>,
     <<231,231,50,213>>, <<200,200,67,139>>, <<55,55,89,110>>, <<109,109,183,218>>, <<141,141,140,1>>, <<213,213,100,177>>, <<78,78,210,156>>, <<169,169,224,73>>,
     <<108,108,180,216>>, <<86,86,250,172>>, <<244,244,7,243>>, <<234,234,37,207>>, <<101,101,175,202>>, <<122,122,142,244>>, <<174,174,233,71>>, <<8,8,24,16>>,
     <<186,186,213,111>>, <<120,120,136,240>>, <<37,37,111,74>>, <<46,46,114,92>>, <<28,28,36,56>>, <<166,166,241,87>>, <<180,180,199,115>>, <<198,198,81,151>>,
     <<232,232,35,203>>, <<221,221,124,161>>, <<116,116,156,232>>, <<31,31,33,62>>, <<75,75,221,150>>, <<189,189,220,97>>, <<139,139,134,13>>, <<138,138,133,15>>,
     <<112,112,144,224>>, <<62,62,66,124>>, <<181,181,196,113>>, <<102,102,170,204>>, <<72,72,216,144>>, <<3,3,5,6>>, <<246,246,1,247>>, <<14,14,18,28>>,
     <<97,97,163,194>>, <<53,53,95,106>>, <<87,87,249,174>>, <<185,185,208,105>>, <<134,134,145,23>>, <<193,193,88,153>>, <<29,29,39,58>>, <<158,158,185,39>>,
     <<225,225,56,217>>, <<248,248,19,235>>, <<152,152,179,43>>, <<17,17,51,34>>, <<105,105,187,210>>, <<217,217,112,169>>, <<142,142,137,7>>, <<148,148,167,51>>,
     <<155,155,182,45>>, <<30,30,34,60>>, <<135,135,146,21>>, <<233,233,32,201>>, <<206,206,73,135>>, <<85,85,255,170>>, <<40,40,120,80>>, <<223,223,122,165>>,
     <<140,140,143,3>>, <<161,161,248,89>>, <<137,137,128,9>>, <<13,13,23,26>>, <<191,191,218,101>>, <<230,230,49,215>>, <<66,66,198,132>>, <<104,104,184,208>>,
     <<65,65,195,130>>, <<153,153,176,41>>, <<45,45,119,90>>, <<15,15,17,30>>, <<176,176,203,123>>, <<84,84,252,168>>, <<187,187,214,109>>, <<22,22,58,44>> >>

td0 ==
  << <<81,244,167,80>>, <<126,65,101,83>>, <<26,23,164,195>>, <<58,39,94,150>>, <<59,171,107,203>>, <<31,157,69,241>>, <<172,250,88,171>>, <<75,227,3,147>>,
     <<32,48,250,85>>, <<173,118,109,246>>, <<136,204,118,145>>, <<245,2,76,37>>, <<79,229,215,252>>, <<197,42,203,215>>, <<38,53,68,128>>, <<181,98,163,143>>,
     <<222,177,90,73>>, <<37,186,27,103>>, <<69,234,14,152>>, <<93,254,192,225>>, <<195,47,117,2>>, <<129,76,240,18>>, <<141,70,151,163>>, <<107,211,249,198>>,
     <<3,143,95,231>>, <<21,146,156,149>>, <<191,109,122,235>>, <<149,82,89,218>>, <<212,190,131,45>>, <<88,116,33,211>>, <<73,224,105,41>>, <<142,201,200,68>>,
     <<117,194,137,106>>, <<244,142,121,120>>, <<153,88,62,107>>, <<39,185,113,221>>, <<190,225,79,182>>, <<240,136,173,23>>, <<201,32,172,102>>, <<125,206,58,180>>,
     <<99,223,74,24>>, <<229,26,49,130>>, <<151,81,51,96>>, <<98,83,127,69>>, <<177,100,119,224>>, <<187,107,174,132>>, <<254,129,160,28>>, <<249,8,43,148>>,
     <<112,72,104,88>>, <<143,69,253,25>>, <<148,222,108,135>>, <<82,123,248,183>>, <<171,115,211,35>>, <<114,75,2,226>>, <<227,31,143,87>>, <<102,85,171,42>>,
     <<178,235,40,7>>, <<47,181,194,3>>, <<134,197,123,154>>, <<211,55,8,165>>, <<48,40,135,242>>, <<35,191,165,178>>, <<2,3,106,186>>, <<237,22,130,92>>,
     <<138,207,28,43>>, <<167,121,180,146>>, <<243,7,242,240>>, <<78,105,226,161>>, <<101,218,244,205>>, <<6,5,190,213>>, <<209,52,98,31>>, <<196,166,254,138>>,
     <<52,46,83,157>>, <<162,243,85,160>>, <<5,138,225,50>>, <<164,246,235,117>>, <<11,131,236,57>>, <<64,96,239,170>>, <<94,113,159,6>>, <<189,110,16,81>>,
     <<62,33,138,249>>, <<150,221,6,61>>, <<221,62,5,174>>, <<77,230,189,70>>, <<145,84,141,181>>, <<113,196,93,5>>, <<4,6,212,111>>, <<96,80,21,255>>,
     <<25,152,251,36>>, <<214,189,233,151>>, <<137,64,67,204>>, <<103,217,158,119>>, <<176,232,66,189>>, <<7,137,139,136>>, <<231,25,91,56>>, <<121,200,238,219>>,
     <<161,124,10,71>>, <<124,66,15,233>>, <<248,132,30,201>>, <<0,0,0,0>>, <<9,128,134,131>>, <<50,43,237,72>>, <<30,17,112,172>>, <<108,90,114,78>>,
     <<253,14,255,251>>, <<15,133,56,86>>, <<61,174,213,30>>, <<54,45,57,39>>, <<10,15,217,100>>, <<104,92,166,33>>, <<155,91,84,209>>, <<36,54,46,58>>,
     <<12,10,103,177>>, <<147,87,231,15>>, <<180,238,150,210>>, <<27,155,145,158>>, <<128,192,197,79>>, <<97,220,32,162>>, <<90,119,75,105>>, <<28,18,26,22>>,
     <<226,147,186,10>>, <<192,160,42,229>>, <<60,34,224,67>>, <<18,27,23,29>>, <<14,9,13,11>>, <<242,139,199,173>>, <<45,182,168,185>>, <<20,30,169,200>>,
     <<87,241,25,133>>, <<175,117,7,76>>, <<238,153,221,187>>, <<163,127,96,253>>, <<247,1,38,159>>, <<92,114,245,188>>, <<68,102,59,197>>, <<91,251,126,52>>,
     <<139,67,41,118>>, <<203,35,198,220>>, <<182,237,252,104>>, <<184,228,241,99>>, <<215,49,220,202>>, <<66,99,133,16>>, <<19,151,34,64>>, <<132,198,17,32>>,
     <<133,74,36,125>>, <<210,187,61,248>>, <<174,249,50,17>>, <<199,41,161,109>>, <<29,158,47,75>>, <<220,178,48,243>>, <<13,134,82,236>>, <<119,193,227,208>>,
     <<43,179,22,108>>, <<169,112,185,153>>, <<17,148,72,250>>, <<71,233,100,34>>, <<168,252,140,196>>, <<160,240,63,26>>, <<86,125,44,216>>, <<34,51,144,239>>,
     <<135,73,78,199>>, <<217,56,209,193>>, <<140,202,162,254>>, <<152,212,11,54>>, <<166,245,129,207>>, <<165,122,222,40>>, <<218,183,142,38>>, <<63,173,191,164>>,
     <<44,58,157,228>>, <<80,120,146,13>>, <<106,95,204,155>>, <<84,126,70,98>>, <<246,141,19,194>>, <<144,216,184,232>>, <<46,57,247,94>>, <<130,195,175,245>>,
     <<159,93,128,190>>, <<105,208,147,124>>, <<111,213,45,169>>, <<207,37,18,179>>, <<200,172,153,59>>, <<16,24,125,167>>, <<232,156,99,110>>, <<219,59,187,123>>,
     <<205,38,120,9>>, <<110,89,24,244>>, <<236,154,183,1>>, <<131,79,154,168>>, <<230,149,110,101>>, <<170,255,230,126>>, <<33,188,207,8>>, <<239,21,232,230>>,
     <<186,231,155,217>>, <<74,111,54,206>>, <<234,159,9,212>>, <<41,176,124,214>>, <<49,164,178,175>>, <<42,63,35,49>>, <<198,165,148,48>>, <<53,162,102,192>>,
     <<116,78,188,55>>, <<252,130,202,166>>, <<224,144,208,176>>, <<51,167,216,21>>, <<241,4,152,74>>, <<65,236,218,247>>, <<127,205,80,14>>, <<23,145,246,47>>,
     <<118,77,214,141>>, <<67,239,176,77>>, <<204,170,77,84>>, <<228,150,4,223>>, <<158,209,181,227>>, <<76,106,136,27>>, <<193,44,31,184>>, <<70,101,81,127>>,
     <<157,94,234,4>>, <<1,140,53,93>>, <<250,135,116,115>>, <<251,11,65,46>>, <<179,103,29,90>>, <<146,219,210,82>>, <<233,16,86,51>>, <<109,214,71,19>>,
     <<154,215,97,140>>, <<55,161,12,122>>, <<89,248,20,142>>, <<235,19,60,137>>, <<206,169,39,238>>, <<183,97,201,53>>, <<225,28,229,237>>, <<122,71,177,60>>,
     <<156,210,223,89>>, <<85,242,115,63>>, <<24,20,206,121>>, <<115,199,55,191>>, <<83,247,205,234>>, <<95,253,170,91>>, <<223,61,111,20>>, <<120,68,219,134>>,
     <<202,175,243,129>>, <<185,104,196,62>>, <<56,36,52,44>>, <<194,163,64,95>>, <<22,29,195,114>>, <<188,226,37,12>>, <<40,60,73,139>>, <<255,13,149,65>>,
     <<57,168,1,113>>, <<8,12,179,222>>, <<216,180,228,156>>, <<100,86,193,144>>, <<123,203,132,97>>, <<213,50,182,112>>, <<72,108,92,116>>, <<208,184,87,66>> >>

td1 ==
  << <<80,81,244,167>>, <<83,126,65,101>>, <<195,26,23,164>>, <<150,58,39,94>>, <<203,59,171,107>>, <<241,31,157,69>>, <<171,172,250,88>>, <<147,75,227,3>>,
     <<85,32,48,250>>, <<246,173,118,109>>, <<145,136,204,118>>, <<37,245,2,76>>, <<252,79,229,215>>, <<215,197,42,203>>, <<128,38,53,68>>, <<143,181,98,163>>,
     <<73,222,177,90>>, <<103,37,186,27>>, <<152,69,234,14>>, <<225,93,254,192>>, <<2,195,47,117>>, <<18,129,76,240>>, <<163,141,70,151>>, <<198,107,211,249>>,
     <<231,3,143,95>>, <<149,21,146,156>>, <<235,191,109,122>>, <<218,149,82,89>>, <<45,212,190,131>>, <<211,88,116,33>>, <<41,73,224,105>>, <<68,142,201,200>>,
     <<106,117,194,137>>, <<120,244,142,121>>, <<107,153,88,62>>, <<221,39,185,113>>, <<182,190,225,79>>, <<23,240,136,173>>, <<102,201,32,172>>, <<180,125,206,58>>,
     <<24,99,223,74>>, <<130,229,26,49>>, <<96,151,81,51>>, <<69,98,83,127>>, <<224,177,100,119>>, <<132,187,107,174>>, <<28,254,129,160>>, <<148,249,8,43>>,
     <<88,112,72,104>>, <<25,143,69,253>>, <<135,148,222,108>>, <<183,82,123,248>>, <<35,171,115,211>>, <<226,114,75,2>>, <<87,227,31,143>>, <<42,102,85,171>>,
     <<7,178,235,40>>, <<3,47,181,194>>, <<154,134,197,123>>, <<165,211,55,8>>, <<242,48,40,135>>, <<178,35,191,165>>, <<186,2,3,106>>, <<92,237,22,130>>,
     <<43,138,207,28>>, <<146,167,121,180>>, <<240,243,7,242>>, <<161,78,105,226>>, <<205,101,218,244>>, <<213,6,5,190>>, <<31,209,52,98>>, <<138,196,166,254>>,
     <<157,52,46,83>>, <<160,162,243,85>>, <<50,5,138,225>>, <<117,164,246,235>>, <<57,11,131,236>>, <<170,64,96,239>>, <<6,94,113,159>>, <<81,189,110,16>>,
     <<249,62,33,138>>, <<61,150,221,6>>, <<174,221,62,5>>, <<70,77,230,189>>, <<181,145,84,141>>, <<5,113,196,93>>, <<111,4,6,212>>, <<255,96,80,21>>,
     <<36,25,152,251>>, <<151,214,189,233>>, <<204,137,64,67>>, <<119,103,217,158>>, <<189,176,232,66>>, <<136,7,137,139>>, <<56,231,25,91>>, <<219,121,200,238>>,
     <<71,161,124,10>>, <<233,124,66,15>>, <<201,248,132,30>>, <<0,0,0,0>>, <<131,9,128,134>>, <<72,50,43,237>>, <<172,30,17,112>>, <<78,108,90,114>>,
     <<251,253,14,255>>, <<86,15,133,56>>, <<30,61,174,213>>, <<39,54,45,57>>, <<100,10,15,217>>, <<33,104,92,166>>, <<209,155,91,84>>, <<58,36,54,46>>,
     <<177,12,10,103>>, <<15,147,87,231>>, <<210,180,238,150>>, <<158,27,155,145>>, <<79,128,192,197>>, <<162,97,220,32>>, <<105,90,119,75>>, <<22,28,18,26>>,
     <<10,226,147,186>>, <<229,192,160,42>>, <<67,60,34,224>>, <<29,18,27,23>>, <<11,14,9,13>>, <<173,242,139,199>>, <<185,45,182,168>>, <<200,20,30,169>>,
     <<133,87,241,25>>, <<76,175,117,7>>, <<187,238,153,221>>, <<253,163,127,96>>, <<159,247,1,38>>, <<188,92,114,245>>, <<197,68,102,59>>, <<52,91,251,126>>,
     <<118,139,67,41>>, <<220,203,35,198>>, <<104,182,237,252>>, <<99,184,228,241>>, <<202,215,49,220>>, <<16,66,99,133>>, <<64,19,151,34>>, <<32,132,198,17>>,
     <<125,133,74,36>>, <<248,210,187,61>>, <<17,174,249,50>>, <<109,199,41,161>>, <<75,29,158,47>>, <<243,220,178,48>>, <<236,13,134,82>>, <<208,119,193,227>>,
     <<108,43,179,22>>, <<153,169,112,185>>, <<250,17,148,72>>, <<34,71,233,100>>, <<196,168,252,140>>, <<26,160,240,63>>, <<216,86,125,44>>, <<239,34,51,144>>,
     <<199,135,73,78>>, <<193,217,56,209>>, <<254,140,202,162>>, <<54,152,212,11>>, <<207,166,245,129>>, <<40,165,122,222>>, <<38,218,183,142>>, <<164,63,173,191>>,
     <<228,44,58,157>>, <<13,80,120,146>>, <<155,106,95,204>>, <<98,84,126,70>>, <<194,246,141,19>>, <<232,144,216,184>>, <<94,46,57,247>>, <<245,130,195,175>>,
     <<190,159,93,128>>, <<124,105,208,147>>, <<169,111,213,45>>, <<179,207,37,18>>, <<59,200,172,153>>, <<167,16,24,125>>, <<110,232,156,99>>, <<123,219,59,187>>,
     <<9,205,38,120>>, <<244,110,89,24>>, <<1,236,154,183>>, <<168,131,79,154>>, <<101,230,149,110>>, <<126,170,255,230>>, <<8,33,188,207>>, <<230,239,21,232>>,
     <<217,186,231,155>>, <<206,74,111,54>>, <<212,234,159,9>>, <<214,41,176,124>>, <<175,49,164,178>>, <<49,42,63,35>>, <<48,198,165,148>>, <<192,53,162,102>>,
     <<55,116,78,188>>, <<166,252,130,202>>, <<176,224,144,208>>, <<21,51,167,216>>, <<74,241,4,152>>, <<247,65,236,218>>, <<14,127,205,80>>, <<47,23,145,246>>,
     <<141,118,77,214>>, <<77,67,239,176>>, <<84,204,170,77>>, <<223,228,150,4>>, <<227,158,209,181>>, <<27,76,106,136>>, <<184,193,44,31>>, <<127,70,101,81>>,
     <<4,157,94,234>>, <<93,1,140,53>>, <<115,250,135,116>>, <<46,251,11,65>>, <<90,179,103,29>>, <<82,146,219,210>>, <<51,233,16,86>>, <<19,109,214,71>>,
     <<140,154,215,97>>, <<122,55,161,12>>, <<142,89,248,20>>, <<137,235,19,60>>, <<238,206,169,39>>, <<53,183,97,201>>, <<237,225,28,229>>, <<60,122,71,177>>,
     <<89,156,210,223>>, <<63,85,242,115>>, <<121,24,20,206>>, <<191,115,199,55>>, <<234,83,247,205>>, <<91,95,253,170>>, <<20,223,61,111>>, <<134,120,68,219>>,
     <<129,202,175,243>>, <<62,185,104,196>>, <<44,56,36,52>>, <<95,194,163,64>>, <<114,22,29,195>>, <<12,188,226,37>>, <<139,40,60,73>>, <<65,255,13,149>>,
     <<113,57,168,1>>, <<222,8,12,179>>, <<156,216,180,228>>, <<144,100,86,193>>, <<97,123,203,132>>, <<112,213,50,182>>, <<116,72,108,92>>, <<66,208,184,87>> >>

td2 ==
  << <<167,80,81,244>>, <<101,83,126,65>>, <<164,195,26,23>>, <<94,150,58,39>>, <<107,203,59,171>>, <<69,241,31,157>>, <<88,171,172,250>>, <<3,147,75,227>>,
     <<250,85,32,48>>, <<109,246,173,118>>, <<118,145,136,204>>, <<76,37,245,2>>, <<215,252,79,229>>, <<203,215,197,42>>, <<68,128,38,53>>, <<163,143,181,98>>,
     <<90,73,222,177>>, <<27,103,37,186>>, <<14,152,69,234>>, <<192,225,93,254>>, <<117,2,195,47>>, <<240,18,129,76>>, <<151,163,141,70>>, <<249,198,107,211>>,
     <<95,231,3,143>>, <<156,149,21,146>>, <<122,235,191,109>>, <<89,218,149,82>>, <<131,45,212,190>>, <<33,211,88,116>>, <<105,41,73,224>>, <<200,68,142,201>>,
     <<137,106,117,194>>, <<121,120,244,142>>, <<62,107,153,88>>, <<113,221,39,185>>, <<79,182,190,225>>, <<173,23,240,136>>, <<172,102,201,32>>, <<58,180,125,206>>,
     <<74,24,99,223>>, <<49,130,229,26>>, <<51,96,151,81>>, <<127,69,98,83>>, <<119,224,177,100>>, <<174,132,187,107>>, <<160,28,254,129>>, <<43,148,249,8>>,
     <<104,88,112,72>>, <<253,25,143,69>>, <<108,135,148,222>>, <<248,183,82,123>>, <<211,35,171,115>>, <<2,226,114,75>>, <<143,87,227,31>>, <<171,42,102,85>>,
     <<40,7,178,235>>, <<194,3,47,181>>, <<123,154,134,197>>, <<8,165,211,55>>, <<135,242,48,40>>, <<165,178,35,191>>, <<106,186,2,3>>, <<130,92,237,22>>,
     <<28,43,138,207>>, <<180,146,167,121>>, <<242,240,243,7>>, <<226,161,78,105>>, <<244,205,101,218>>, <<190,213,6,5>>, <<98,31,209,52>>, <<254,138,196,166>>,
     <<83,157,52,46>>, <<85,160,162,243>>, <<225,50,5,138>>, <<235,117,164,246>>, <<236,57,11,131>>, <<239,170,64,96>>, <<159,6,94,113>>, <<16,81,189,110>>,
     <<138,249,62,33>>, <<6,61,150,221>>, <<5,174,221,62>>, <<189,70,77,230>>, <<141,181,145,84>>, <<93,5,113,196>>, <<212,111,4,6>>, <<21,255,96,80>>,
     <<251,36,25,152>>, <<233,151,214,189>>, <<67,204,137,64>>, <<158,119,103,217>>, <<66,189,176,232>>, <<139,136,7,137>>, <<91,56,231,25>>, <<238,219,121,200>>,
     <<10,71,161,124>>, <<15,233,124,66>>, <<30,201,248,132>>, <<0,0,0,0>>, <<134,131,9,128>>, <<237,72,50,43>>, <<112,172,30,17>>, <<114,78,108,90>>,
     <<255,251,253,14>>, <<56,86,15,133>>, <<213,30,61,174>>, <<57,39,54,45>>, <<217,100,10,15>>, <<166,33,104,92>>, <<84,209,155,91>>, <<46,58,36,54>>,
     <<103,177,12,10>>, <<231,15,147,87>>, <<150,210,180,238>>, <<145,158,27,155>>, <<197,79,128,192>>, <<32,162,97,220>>, <<75,105,90,119>>, <<26,22,28,18>>,
     <<186,10,226,147>>, <<42,229,192,160>>, <<224,67,60,34>>, <<23,29,18,27>>, <<13,11,14,9>>, <<199,173,242,139>>, <<168,185,45,182>>, <<169,200,20,30>>,
     <<25,133,87,241>>, <<7,76,175,117>>, <<221,187,238,153>>, <<96,253,163,127>>, <<38,159,247,1>>, <<245,188,92,114>>, <<59,197,68,102>>, <<126,52,91,251>>,
     <<41,118,139,67>>, <<198,220,203,35>>, <<252,104,182,237>>, <<241,99,184,228>>, <<220,202,215,49>>, <<133,16,66,99>>, <<34,64,19,151>>, <<17,32,132,198>>,
     <<36,125,133,74>>, <<61,248,210,187>>, <<50,17,174,249>>, <<161,109,199,41>>, <<47,75,29,158>>, <<48,243,220,178>>, <<82,236,13,134>>, <<227,208,119,193>>,
     <<22,108,43,179>>, <<185,153,169,112>>, <<72,250,17,148>>, <<100,34,71,233>>, <<140,196,168,252>>, <<63,26,160,240>>, <<44,216,86,125>>, <<144,239,34,51>>,
     <<78,199,135,73>>, <<209,193,217,56>>, <<162,254,140,202>>, <<11,54,152,212>>, <<129,207,166,245>>, <<222,40,165,122>>, <<142,38,218,183>>, <<191,164,63,173>>,
     <<157,228,44,58>>, <<146,13,80,120>>, <<204,155,106,95>>, <<70,98,84,126>>, <<19,194,246,141>>, <<184,232,144,216>>, <<247,94,46,57>>, <<175,245,130,195>>,
     <<128,190,159,93>>, <<147,124,105,208>>, <<45,169,111,213>>, <<18,179,207,37>>, <<153,59,200,172>>, <<125,167,16,24>>, <<99,110,232,156>>, <<187,123,219,59>>,
     <<120,9,205,38>>, <<24,244,110,89>>, <<183,1,236,154>>, <<154,168,131,79>>, <<110,101,230,149>>, <<230,126,170,255>>, <<207,8,33,188>>, <<232,230,239,21>>,
     <<155,217,186,231>>, <<54,206,74,111>>, <<9,212,234,159>>, <<124,214,41,176>>, <<178,175,49,164>>, <<35,49,42,63>>, <<148,48,198,165>>, <<102,192,53,162>>,
     <<188,55,116,78>>, <<202,166,252,130>>, <<208,176,224,144>>, <<216,21,51,167>>, <<152,74,241,4>>, <<218,247,65,236>>, <<80,14,127,205>>, <<246,47,23,145>>,
     <<214,141,118,77>>, <<176,77,67,239>>, <<77,84,204,170>>, <<4,223,228,150>>, <<181,227,158,209>>, <<136,27,76,106>>, <<31,184,193,44>>, <<81,127,70,101>>,
     <<234,4,157,94>>, <<53,93,1,140>>, <<116,115,250,135>>, <<65,46,251,11>>, <<29,90,179,103>>, <<210,82,146,219>>, <<86,51,233,16>>, <<71,19,109,214>>,
     <<97,140,154,215>>, <<12,122,55,161>>, <<20,142,89,248>>, <<60,137,235,19>>, <<39,238,206,169>>, <<201,53,183,97>>, <<229,237,225,28>>, <<177,60,122,71>>,
     <<223,89,156,210>>, <<115,63,85,242>>, <<206,121,24,20>>, <<55,191,115,199>>, <<205,234,83,247>>, <<170,91,95,253>>, <<111,20,223,61>>, <<219,134,120,68>>,
     <<243,129,202,175>>, <<196,62,185,104>>, <<52,44,56,36>>, <<64,95,194,163>>, <<195,114,22,29>>, <<37,12,188,226>>, <<73,139,40,60>>, <<149,65,255,13>>,
     <<1,113,57,168>>, <<179,222,8,12>>, <<228,156,216,180>>, <<193,144,100,86>>, <<132,97,123,203>>, <<182,112,213,50>>, <<92,116,72,108>>, <<87,66,208,184>> >>

td3 ==
  << <<244,167,80,81>>, <<65,101,83,126>>, <<23,164,195,26>>, <<39,94,150,58>>, <<171,107,203,59>>, <<157,69,241,31>>, <<250,88,171,172>>, <<227,3,147,75>>,
     <<48,250,85,32>>, <<118,109,246,173>>, <<204,118,145,136>>, <<2,76,37,245>>, <<229,215,252,79>>, <<42,203,215,197>>, <<53,68,128,38>>, <<98,163,143,181>>,
     <<177,90,73,222>>, <<186,27,103,37>>, <<234,14,152,69>>, <<254,192,225,93>>, <<47,117,2,195>>, <<76,240,18,129>>, <<70,151,163,141>>, <<211,249,198,107>>,
     <<143,95,231,3>>, <<146,156,149,21>>, <<109,122,235,191>>, <<82,89,218,149>>, <<190,131,45,212>>, <<116,33,211,88>>, <<224,105,41,73>>, <<201,200,68,142>>,
     <<194,137,106,117>>, <<142,121,120,244>>, <<88,62,107,153>>, <<185,113,221,39>>, <<225,79,182,190>>, <<136,173,23,240>>, <<32,172,102,201>>, <<206,58,180,125>>,
     <<223,74,24,99>>, <<26,49,130,229>>, <<81,51,96,151>>, <<83,127,69,98>>, <<100,119,224,177>>, <<107,174,132,187>>, <<129,160,28,254>>, <<8,43,148,249>>,
     <<72,104,88,112>>, <<69,253,25,143>>, <<222,108,135,148>>, <<123,248,183,82>>, <<115,211,35,171>>, <<75,2,226,114>>, <<31,143,87,227>>, <<85,171,42,102>>,
     <<235,40,7,178>>, <<181,194,3,47>>, <<197,123,154,134>>, <<55,8,165,211>>, <<40,135,242,48>>, <<191,165,178,35>>, <<3,106,186,2>>, <<22,130,92,237>>,
     <<207,28,43,138>>, <<121,180,146,167>>, <<7,242,240,243>>, <<105,226,161,78>>, <<218,244,205,101>>, <<5,190,213,6>>, <<52,98,31,209>>, <<166,254,138,196>>,
     <<46,83,157,52>>, <<243,85,160,162>>, <<138,225,50,5>>, <<246,235,117,164>>, <<131,236,57,11>>, <<96,239,170,64>>, <<113,159,6,94>>, <<110,16,81,189>>,
     <<33,138,249,62>>, <<221,6,61,150>>, <<62,5,174,221>>, <<230,189,70,77>>, <<84,141,181,145>>, <<196,93,5,113>>, <<6,212,111,4>>, <<80,21,255,96>>,
     <<152,251,36,25>>, <<189,233,151,214>>, <<64,67,204,137>>, <<217,158,119,103>>, <<232,66,189,176>>, <<137,139,136,7>>, <<25,91,56,231>>, <<200,238,219,121>>,
     <<124,10,71,161>>, <<66,15,233,124>>, <<132,30,201,248>>, <<0,0,0,0>>, <<128,134,131,9>>, <<43,237,72,50>>, <<17,112,172,30>>, <<90,114,78,108>>,
     <<14,255,251,253>>, <<133,56,86,15>>, <<174,213,30,61>>, <<45,57,39,54>>, <<15,217,100,10>>, <<92,166,33,104>>, <<91,84,209,155>>, <<54,46,58,36>>,
     <<10,103,177,12>>, <<87,231,15,147>>, <<238,150,210,180>>, <<155,145,158,27>>, <<192,197,79,128>>, <<220,32,162,97>>, <<119,75,105,90>>, <<18,26,22,28>>,
     <<147,186,10,226>>, <<160,42,229,192>>, <<34,224,67,60>>, <<27,23,29,18>>, <<9,13,11,14>>, <<139,199,173,242>>, <<182,168,185,45>>, <<30,169,200,20>>,
     <<241,25,133,87>>, <<117,7,76,175>>, <<153,221,187,238>>, <<127,96,253,163>>, <<1,38,159,247>>, <<114,245,188,92>>, <<102,59,197,68>>, <<251,126,52,91>>,
     <<67,41,118,139>>, <<35,198,220,203>>, <<237,252,104,182>>, <<228,241,99,184>>, <<49,220,202,215>>, <<99,133,16,66>>, <<151,34,64,19>>, <<198,17,32,132>>,
     <<74,36,125,133>>, <<187,61,248,210>>, <<249,50,17,174>>, <<41,161,109,199>>, <<158,47,75,29>>, <<178,48,243,220>>, <<134,82,236,13>>, <<193,227,208,119>>,
     <<179,22,108,43>>, <<112,185,153,169>>, <<148,72,250,17>>, <<233,100,34,71>>, <<252,140,196,168>>, <<240,63,26,160>>, <<125,44,216,86>>, <<51,144,239,34>>,
     <<73,78,199,135>>, <<56,209,193,217>>, <<202,162,254,140>>, <<212,11,54,152>>, <<245,129,207,166>>, <<122,222,40,165>>, <<183,142,38,218>>, <<173,191,164,63>>,
     <<58,157,228,44>>, <<120,146,13,80>>, <<95,204,155,106>>, <<126,70,98,84>>, <<141,19,194,246>>, <<216,184,232,144>>, <<57,247,94,46>>, <<195,175,245,130>>,
     <<93,128,190,159>>, <<208,147,124,105>>, <<213,45,169,111>>, <<37,18,179,207>>, <<172,153,59,200>>, <<24,125,167,16>>, <<156,99,110,232>>, <<59,187,123,219>>,
     <<38,120,9,205>>, <<89,24,244,110>>, <<154,183,1,236>>, <<79,154,168,131>>, <<149,110,101,230>>, <<255,230,126,170>>, <<188,207,8,33>>, <<21,232,230,239>>,
     <<231,155,217,186>>, <<111,54,206,74>>, <<159,9,212,234>>, <<176,124,214,41>>, <<164,178,175,49>>, <<63,35,49,42>>, <<165,148,48,198>>, <<162,102,192,53>>,
     <<78,188,55,116>>, <<130,202,166,252>>, <<144,208,176,224>>, <<167,216,21,51>>, <<4,152,74,241>>, <<236,218,247,65>>, <<205,80,14,127>>, <<145,246,47,23>>,
     <<77,214,141,118>>, <<239,176,77,67>>, <<170,77,84,204>>, <<150,4,223,228>>, <<209,181,227,158>>, <<106,136,27,76>>, <<44,31,184,193>>, <<101,81,127,70>>,
     <<94,234,4,157>>, <<140,53,93,1>>, <<135,116,115,250>>, <<11,65,46,251>>, <<103,29,90,179>>, <<219,210,82,146>>, <<16,86,51,233>>, <<214,71,19,109>>,
     <<215,97,140,154>>, <<161,12,122,55>>, <<248,20,142,89>>, <<19,60,137,235>>, <<169,39,238,206>>, <<97,201,53,183>>, <<28,229,237,225>>, <<71,177,60,122>>,
     <<210,223,89,156>>, <<242,115,63,85>>, <<20,206,121,24>>, <<199,55,191,115>>, <<247,205,234,83>>, <<253,170,91,95>>, <<61,111,20,223>>, <<68,219,134,120>>,
     <<175,243,129,202>>, <<104,196,62,185>>, <<36,52,44,56>>, <<163,64,95,194>>, <<29,195,114,22>>, <<226,37,12,188>>, <<60,73,139,40>>, <<13,149,65,255>>,
     <<168,1,113,57>>, <<12,179,222,8>>, <<180,228,156,216>>, <<86,193,144,100>>, <<203,132,97,123>>, <<50,182,112,213>>, <<108,92,116,72>>, <<184,87,66,208>> >>

si ==
  << 82, 9, 106, 213, 48, 54, 165, 56, 191, 64, 163, 158, 129, 243, 215, 251,
     124, 227, 57, 130, 155, 47, 255, 135, 52, 142, 67, 68, 196, 222, 233, 203,
     84, 123, 148, 50, 166, 194, 35, 61, 238, 76, 149, 11, 66, 250, 195, 78,
     8, 46, 161, 102, 40, 217, 36, 178, 118, 91, 162, 73, 109, 139, 209, 37,
     114, 248, 246, 100, 134, 104, 152, 22, 212, 164, 92, 204, 93, 101, 182, 146,
     108, 112, 72, 80, 253, 237, 185, 218, 94, 21, 70, 87, 167, 141, 157, 132,
     144, 216, 171, 0, 140, 188, 211, 10, 247, 228, 88, 5, 184, 179, 69, 6,
     208, 44, 30, 143, 202, 63, 15, 2, 193, 175, 189, 3, 1, 19, 138, 107,
     58, 145, 17, 65, 79, 103, 220, 234, 151, 242, 207, 206, 240, 180, 230, 115,
     150, 172, 116, 34, 231, 173, 53, 133, 226, 249, 55, 232, 28, 117, 223, 110,
     71, 241, 26, 113, 29, 41, 197, 137, 111, 183, 98, 14, 170, 24, 190, 27,
     252, 86, 62, 75, 198, 210, 121, 32, 154, 219, 192, 254, 120, 205, 90, 244,
     31, 221, 168, 51, 136, 7, 199, 49, 177, 18, 16, 89, 39, 128, 236, 95,
     96, 81, 127, 169, 25, 181, 74, 13, 45, 229, 122, 159, 147, 201, 156, 239,
     160, 224, 59, 77, 174, 42, 245, 176, 200, 235, 187, 60, 131, 83, 153, 97,
     23, 43, 4, 126, 186, 119, 214, 38, 225, 105, 20, 99, 85, 33, 12, 125 >>

Tab(tbl, i) == tbl[i + 1]

\* The statements of the code run in order: After(x, e) is e, with the value
\* x of the statements before evaluated first.
After(x, e) == IF x = x THEN e ELSE e

(***************************************************************************)
(* Round-key arrays.  Load and Store are the C array accesses rk[i]; a     *)
(* store outside the array is kept visible by extending the domain, a load *)
(* outside the array yields an unspecified word.                           *)
(***************************************************************************)
Load(rk, i) == IF i \in DOMAIN rk THEN rk[i] ELSE Zero32

Store(rk, i, v) ==
  IF i \in DOMAIN rk THEN [rk EXCEPT ![i] = v] ELSE (i :> v) @@ rk

\* a key setup that does not clear the context first
Mut_NoMemset(ctx) == ctx

\* a key setup that clears ek and leaves dk as it was
Mut_memset_ek_only(ctx) ==
  [ek |-> [i \in DOMAIN ctx.ek |-> Zero32], dk |-> ctx.dk]

\* a key setup that clears dk and leaves ek as it was
Mut_memset_dk_only(ctx) ==
  [ek |-> ctx.ek, dk |-> [i \in DOMAIN ctx.dk |-> Zero32]]

\* memset (ctx, 0, sizeof (*ctx))
memset_ctx(ctx) ==
  [ek |-> [i \in DOMAIN ctx.ek |-> Zero32],
   dk |-> [i \in DOMAIN ctx.dk |-> Zero32]]

\* four stores to consecutive words: rk[b] = w0; ..; rk[b + 3] = w3
Store4(rk, b, w0, w1, w2, w3) ==
  IF {b, b + 3} \subseteq DOMAIN rk
  THEN [rk EXCEPT ![b] = w0, ![b + 1] = w1, ![b + 2] = w2, ![b + 3] = w3]
  ELSE Store(Store(Store(Store(rk, b, w0), b + 1, w1), b + 2, w2), b + 3, w3)

\* rk[i] = buff_get_be32 (key + 4 * i) for i = b .. b + 3
LoadKey4(rk, key, b) ==
  Store4(rk, b, buff_get_be32(key, 4 * b), buff_get_be32(key, 4 * b + 4),
         buff_get_be32(key, 4 * b + 8), buff_get_be32(key, 4 * b + 12))

\* rk[i] = buff_get_be32 (key + 4 * i) for i = b, b + 1
LoadKey2(rk, key, b) ==
  Store(Store(rk, b, buff_get_be32(key, 4 * b)),
        b + 1, buff_get_be32(key, 4 * b + 4))

\* a first word of a block substituted without the rotation
Mut_SubRotWord_NoRot(t) ==
  Xor32(Xor32(Xor32(And32(Tab(te2, ShrByte(t, 24)), MASK3),
                    And32(Tab(te3, ShrByte(t, 16)), MASK2)),
              And32(Tab(te0, ShrByte(t, 8)), MASK1)),
        And32(Tab(te1, ShrByte(t, 0)), MASK0))

\* SubWord(RotWord(t)) as the four masked table reads of the key schedule
SubRotWord(t) ==
  Xor32(Xor32(Xor32(And32(Tab(te2, ShrByte(t, 16)), MASK3),
                    And32(Tab(te3, ShrByte(t, 8)), MASK2)),
              And32(Tab(te0, ShrByte(t, 0)), MASK1)),
        And32(Tab(te1, ShrByte(t, 24)), MASK0))

\* a second substitution of the 256-bit schedule that rotates as the first
Mut_SubWord_Rot(t) ==
  Xor32(Xor32(Xor32(And32(Tab(te2, ShrByte(t, 16)), MASK3),
                    And32(Tab(te3, ShrByte(t, 8)), MASK2)),
              And32(Tab(te0, ShrByte(t, 0)), MASK1)),
        And32(Tab(te1, ShrByte(t, 24)), MASK0))

\* SubWord(t), the second substitution of the 256-bit schedule
SubWord(t) ==
  Xor32(Xor32(Xor32(And32(Tab(te2, ShrByte(t, 24)), MASK3),
                    And32(Tab(te3, ShrByte(t, 16)), MASK2)),
              And32(Tab(te0, ShrByte(t, 8)), MASK1)),
        And32(Tab(te1, ShrByte(t, 0)), MASK0))

\* The first word of a block "i == .." of a key schedule:
\*   t = rk[b - 1]; rk[b] = rk[b - nk];
\*   rk[b] ^= te2[(t >> 16) & 0xff] & 0xff000000; ..; rk[b] ^= RCONi
KeyFirst(rk, b, nk, i) ==
  Store(rk, b, Xor32(Xor32(Load(rk, b - nk), SubRotWord(Load(rk, b - 1))),
                     RCON[i + 1]))

\* The first word of the second half of a block of the 256-bit schedule:
\*   t = rk[b - 1]; rk[b] = rk[b - nk];
\*   rk[b] ^= te2[(t >> 24) & 0xff] & 0xff000000; ..   (no RCON)
KeyMid(rk, b, nk) ==
  Store(rk, b, Xor32(Load(rk, b - nk), SubWord(Load(rk, b - 1))))

\* rk[j] ^= rk[j - nk] ^ rk[j - 1]
KeyStep(rk, j, nk) ==
  Store(rk, j, Xor32(Load(rk, j), Xor32(Load(rk, j - nk), Load(rk, j - 1))))

\* One block "i == .." of a key schedule, words b .. b + 3
KeyBlock(rk, b, nk, i) ==
  KeyStep(KeyStep(KeyStep(KeyFirst(rk, b, nk, i), b + 1, nk), b + 2, nk),
          b + 3, nk)

\* The second half of a block of the 256-bit schedule, words b .. b + 3
KeyBlockMid(rk, b, nk) ==
  KeyStep(KeyStep(KeyStep(KeyMid(rk, b, nk), b + 1, nk), b + 2, nk),
          b + 3, nk)

\* The last two statements of a block of the 192-bit schedule
KeyBlockTail(rk, b, nk) == KeyStep(KeyStep(rk, b, nk), b + 1, nk)

\* the six statements after the key words of block i of the 192-bit schedule
KeyBlock192(rk, i) == KeyBlockTail(KeyBlock(rk, 6 * i + 6, 6, i), 6 * i + 10, 6)

\* block i of the 256-bit schedule, both halves
KeyBlock256(rk, i) == KeyBlockMid(KeyBlock(rk, 8 * i + 8, 8, i), 8 * i + 12, 8)

\* blocks "i == 0" .. "i == 9" of the 128-bit schedule, from block i on
RECURSIVE Expand128(_, _)
Expand128(rk, i) ==
  IF i = 10 THEN rk
  ELSE After(rk, Expand128(KeyBlock(rk, 4 * i + 4, 4, i), i + 1))

aes128_set_encrypt_key(ctx, key) ==
  LET z == memset_ctx(ctx)
  IN  [ek |-> Expand128(LoadKey4(z.ek, key, 0), 0), dk |-> z.dk]

\* a 192-bit schedule whose last block is a whole block of six words
RECURSIVE Mut_Expand192_FullLastBlock(_, _)
Mut_Expand192_FullLastBlock(rk, i) ==
  IF i = 8 THEN rk
  ELSE After(rk, Mut_Expand192_FullLastBlock(KeyBlock192(rk, i), i + 1))

\* blocks "i == 0" .. "i == 7" of the 192-bit schedule, from block i on; the
\* last block stops after rk[51]
RECURSIVE Expand192(_, _)
Expand192(rk, i) ==
  IF i = 7 THEN KeyBlock(rk, 48, 6, 7)
  ELSE After(rk, Expand192(KeyBlock192(rk, i), i + 1))

aes192_set_encrypt_key(ctx, key) ==
  LET z == memset_ctx(ctx)
  IN  [ek |-> Expand192(LoadKey2(LoadKey4(z.ek, key, 0), key, 4), 0),
       dk |-> z.dk]

\* blocks "i == 0" .. "i == 6" of the 256-bit schedule, from block i on; the
\* last block stops after rk[59]
RECURSIVE Expand256(_, _)
Expand256(rk, i) ==
  IF i = 6 THEN KeyBlock(rk, 56, 8, 6)
  ELSE After(rk, Expand256(KeyBlock256(rk, i), i + 1))

aes256_set_encrypt_key(ctx, key) ==
  LET z == memset_ctx(ctx)
  IN  [ek |-> Expand256(LoadKey4(LoadKey4(z.ek, key, 0), key, 4), 0),
       dk |-> z.dk]

(***************************************************************************)
(* Decryption key setup: rk = ctx->dk, then the encryption key setup on    *)
(* ctx, then the group swaps and the inverse MixColumns, all on rk.        *)
(***************************************************************************)
\* t = rk[a]; rk[a] = rk[b]; rk[b] = t for the four words of group g
\* (a = 4 * g + j) and of group nr - g (b = 4 * (nr - g) + j)
Swap4(rk, a, b) ==
  Store4(Store4(rk, a, Load(rk, b), Load(rk, b + 1),
                       Load(rk, b + 2), Load(rk, b + 3)),
         b, Load(rk, a), Load(rk, a + 1), Load(rk, a + 2), Load(rk, a + 3))

SwapGroup(rk, g, nr) == Swap4(rk, 4 * g, 4 * (nr - g))

\* "Invert the round keys": groups g .. with groups nr - g .., up to the
\* middle group, which stays
RECURSIVE InvertRoundKeys(_, _, _)
InvertRoundKeys(rk, g, nr) ==
  IF 2 * g >= nr THEN rk
  ELSE After(rk, InvertRoundKeys(SwapGroup(rk, g, nr), g + 1, nr))

\* an InvMixColumns that takes the S-box from te0 in place of te1
Mut_InvMixWord_te0(w) ==
  Xor32(Xor32(Xor32(Tab(td0, ShrByte(Tab(te0, ShrByte(w, 24)), 0)),
                    Tab(td1, ShrByte(Tab(te0, ShrByte(w, 16)), 0))),
              Tab(td2, ShrByte(Tab(te0, ShrByte(w, 8)), 0))),
        Tab(td3, ShrByte(Tab(te0, ShrByte(w, 0)), 0)))

\* td0[te1[(w >> 24) & 0xff] & 0xff] ^ td1[..] ^ td2[..] ^ td3[..]
InvMixWord(w) ==
  Xor32(Xor32(Xor32(Tab(td0, ShrByte(Tab(te1, ShrByte(w, 24)), 0)),
                    Tab(td1, ShrByte(Tab(te1, ShrByte(w, 16)), 0))),
              Tab(td2, ShrByte(Tab(te1, ShrByte(w, 8)), 0))),
        Tab(td3, ShrByte(Tab(te1, ShrByte(w, 0)), 0)))

\* rk[i] = InvMixWord(rk[i]) for the four words i of group g
InvMixGroup(rk, g) ==
  Store4(rk, 4 * g, InvMixWord(Load(rk, 4 * g)), InvMixWord(Load(rk, 4 * g + 1)),
         InvMixWord(Load(rk, 4 * g + 2)), InvMixWord(Load(rk, 4 * g + 3)))

\* "Inverse MixColums on all round keys except the first and last": groups
\* g .. nr - 1
RECURSIVE InvMixKeys(_, _, _)
InvMixKeys(rk, g, nr) ==
  IF g = nr THEN rk
  ELSE After(rk, InvMixKeys(InvMixGroup(rk, g), g + 1, nr))

\* the statements of aesN_set_decrypt_key after the call of
\* aesN_set_encrypt_key, on rk = ctx->dk
DecryptKeys(rk, nr) == InvMixKeys(InvertRoundKeys(rk, 0, nr), 1, nr)

aes128_set_decrypt_key(ctx, key) ==
  LET c == aes128_set_encrypt_key(ctx, key)
  IN  [ek |-> c.ek, dk |-> DecryptKeys(c.dk, AES128_ROUNDS)]

aes192_set_decrypt_key(ctx, key) ==
  LET c == aes192_set_encrypt_key(ctx, key)
  IN  [ek |-> c.ek, dk |-> DecryptKeys(c.dk, AES192_ROUNDS)]

aes256_set_decrypt_key(ctx, key) ==
  LET c == aes256_set_encrypt_key(ctx, key)
  IN  [ek |-> c.ek, dk |-> DecryptKeys(c.dk, AES256_ROUNDS)]

(***************************************************************************)
(* Block encryption.  The state is the tuple <<x0, x1, x2, x3>> of words;  *)
(* word i of the C code is component i + 1.                                *)
(***************************************************************************)
\* word (i + k) mod 4 of the state
W(x, i, k) == x[((i + k) % 4) + 1]

\* round-key indices that stay in group 0
Mut_RkIndex_Group0(r, i) == i

\* round-key indices that are one group too high
Mut_RkIndex_NextGroup(r, i) == 4 * (r + 1) + i

\* the index of word i of round-key group r: rk[4], rk[5], .. in the code
RkIndex(r, i) == 4 * r + i

\* x_i = buff_get_be32 (src + 4 * i) ^ rk[i]
AddFirstKey(rk, src) ==
  << Xor32(buff_get_be32(src, 0), Load(rk, RkIndex(0, 0))),
     Xor32(buff_get_be32(src, 4), Load(rk, RkIndex(0, 1))),
     Xor32(buff_get_be32(src, 8), Load(rk, RkIndex(0, 2))),
     Xor32(buff_get_be32(src, 12), Load(rk, RkIndex(0, 3))) >>

\* an encryption round with all four lanes read from word i: no ShiftRows
Mut_EncRoundWord_NoShift(ek, r, x, i) ==
  Xor32(Xor32(Xor32(Xor32(Tab(te0, ShrByte(W(x, i, 0), 24)),
                          Tab(te1, ShrByte(W(x, i, 0), 16))),
                    Tab(te2, ShrByte(W(x, i, 0), 8))),
              Tab(te3, ShrByte(W(x, i, 0), 0))),
        Load(ek, RkIndex(r, i)))

\* "Round r" of aesN_encrypt, 1 <= r <= Nr - 1
EncRoundWord(ek, r, x, i) ==
  Xor32(Xor32(Xor32(Xor32(Tab(te0, ShrByte(W(x, i, 0), 24)),
                          Tab(te1, ShrByte(W(x, i, 1), 16))),
                    Tab(te2, ShrByte(W(x, i, 2), 8))),
              Tab(te3, ShrByte(W(x, i, 3), 0))),
        Load(ek, RkIndex(r, i)))

EncRound(ek, r, x) ==
  << EncRoundWord(ek, r, x, 0), EncRoundWord(ek, r, x, 1),
     EncRoundWord(ek, r, x, 2), EncRoundWord(ek, r, x, 3) >>

\* a last round that is one more full round
Mut_EncLastWord_Full(ek, nr, y, i) == EncRoundWord(ek, nr, y, i)

\* the last round of aesN_encrypt: masked table reads, no MixColumns
EncLastWord(ek, nr, y, i) ==
  Xor32(Xor32(Xor32(Xor32(
          And32(Tab(te2, ShrByte(W(y, i, 0), 24)), MASK3),
          And32(Tab(te3, ShrByte(W(y, i, 1), 16)), MASK2)),
          And32(Tab(te0, ShrByte(W(y, i, 2), 8)), MASK1)),
          And32(Tab(te1, ShrByte(W(y, i, 3), 0)), MASK0)),
        Load(ek, RkIndex(nr, i)))

EncLast(ek, nr, y) ==
  << EncLastWord(ek, nr, y, 0), EncLastWord(ek, nr, y, 1),
     EncLastWord(ek, nr, y, 2), EncLastWord(ek, nr, y, 3) >>

\* a decryption round with all four lanes read from word i
Mut_DecRoundWord_NoOffset(dk, r, x, i) ==
  Xor32(Xor32(Xor32(Xor32(Tab(td0, ShrByte(W(x, i, 0), 24)),
                          Tab(td1, ShrByte(W(x, i, 0), 16))),
                    Tab(td2, ShrByte(W(x, i, 0), 8))),
              Tab(td3, ShrByte(W(x, i, 0), 0))),
        Load(dk, RkIndex(r, i)))

\* "Round r" of aesN_decrypt, 1 <= r <= Nr - 1
DecRoundWord(dk, r, x, i) ==
  Xor32(Xor32(Xor32(Xor32(Tab(td0, ShrByte(W(x, i, 0), 24)),
                          Tab(td1, ShrByte(W(x, i, 3), 16))),
                    Tab(td2, ShrByte(W(x, i, 2), 8))),
              Tab(td3, ShrByte(W(x, i, 1), 0))),
        Load(dk, RkIndex(r, i)))

DecRound(dk, r, x) ==
  << DecRoundWord(dk, r, x, 0), DecRoundWord(dk, r, x, 1),
     DecRoundWord(dk, r, x, 2), DecRoundWord(dk, r, x, 3) >>

\* a last decryption round that reads its lanes in the order of encryption
Mut_DecLastWord_EncOrder(dk, nr, y, i) ==
  Xor32(Xor32(Xor32(Xor32(
          ShlByte(Tab(si, ShrByte(W(y, i, 0), 24)), 24),
          ShlByte(Tab(si, ShrByte(W(y, i, 1), 16)), 16)),
          ShlByte(Tab(si, ShrByte(W(y, i, 2), 8)), 8)),
          ShlByte(Tab(si, ShrByte(W(y, i, 3), 0)), 0)),
        Load(dk, RkIndex(nr, i)))

\* the last round of aesN_decrypt: the inverse S-box si, no table td
DecLastWord(dk, nr, y, i) ==
  Xor32(Xor32(Xor32(Xor32(
          ShlByte(Tab(si, ShrByte(W(y, i, 0), 24)), 24),
          ShlByte(Tab(si, ShrByte(W(y, i, 3), 16)), 16)),
          ShlByte(Tab(si, ShrByte(W(y, i, 2), 8)), 8)),
          ShlByte(Tab(si, ShrByte(W(y, i, 1), 0)), 0)),
        Load(dk, RkIndex(nr, i)))

DecLast(dk, nr, y) ==
  << DecLastWord(dk, nr, y, 0), DecLastWord(dk, nr, y, 1),
     DecLastWord(dk, nr, y, 2), DecLastWord(dk, nr, y, 3) >>

\* "Round r" .. "Round nr - 1" in order
RECURSIVE EncRounds(_, _, _, _)
EncRounds(ek, x, r, nr) ==
  IF r = nr THEN x
  ELSE After(x, EncRounds(ek, EncRound(ek, r, x), r + 1, nr))

RECURSIVE DecRounds(_, _, _, _)
DecRounds(dk, x, r, nr) ==
  IF r = nr THEN x
  ELSE After(x, DecRounds(dk, DecRound(dk, r, x), r + 1, nr))

\* buff_put_be32 (dest, x0); .. ; buff_put_be32 (dest + 12, x3)
PutBlock(dest, x) ==
  buff_put_be32(buff_put_be32(buff_put_be32(buff_put_be32(
    dest, 0, x[1]), 4, x[2]), 8, x[3]), 12, x[4])

\* the round-key indices read by a block operation of nr rounds
RoundKeyIdx(nr) == {RkIndex(r, i) : r \in 0..nr, i \in 0..3}

\* the state after the last round of the encryption of the block src
EncState(nr, ek, src) ==
  EncLast(ek, nr, EncRounds(ek, AddFirstKey(ek, src), 1, nr))

\* the state after the last round of the decryption of the block src
DecState(nr, dk, src) ==
  DecLast(dk, nr, DecRounds(dk, AddFirstKey(dk, src), 1, nr))

\* a block operation that keeps its output block z in ctx->ek[0 .. 3]
Mut_Output_Chained(nr, ctx, mem, dest, z) ==
  [ctx |-> [ctx EXCEPT !.ek = Store4(@, 0, z[1], z[2], z[3], z[4])],
   mem |-> [mem EXCEPT ![dest] = PutBlock(mem[dest], z)],
   idx |-> RoundKeyIdx(nr)]

\* A block operation gets the context and the caller's memory and returns
\* both as it leaves them, with the round-key indices it has read; z is the
\* state after the last round, which goes to dest.
Output(nr, ctx, mem, dest, z) ==
  [ctx |-> ctx,
   mem |-> [mem EXCEPT ![dest] = PutBlock(mem[dest], z)],
   idx |-> RoundKeyIdx(nr)]

\* an encryption that stores to dest[0 .. 3] before it loads src
Mut_EncryptBlock_EarlyStore(nr, ctx, mem, src, dest) ==
  Output(nr, ctx, mem, dest,
         EncState(nr, ctx.ek,
                  [mem EXCEPT ![dest] = buff_put_be32(@, 0, Zero32)][src]))

EncryptBlock(nr, ctx, mem, src, dest) ==
  Output(nr, ctx, mem, dest, EncState(nr, ctx.ek, mem[src]))

DecryptBlock(nr, ctx, mem, src, dest) ==
  Output(nr, ctx, mem, dest, DecState(nr, ctx.dk, mem[src]))

aes128_encrypt(ctx, mem, src, dest) == EncryptBlock(AES128_ROUNDS, ctx, mem, src, dest)

aes192_encrypt(ctx, mem, src, dest) == EncryptBlock(AES192_ROUNDS, ctx, mem, src, dest)

aes256_encrypt(ctx, mem, src, dest) == EncryptBlock(AES256_ROUNDS, ctx, mem, src, dest)

aes128_decrypt(ctx, mem, src, dest) == DecryptBlock(AES128_ROUNDS, ctx, mem, src, dest)

aes192_decrypt(ctx, mem, src, dest) == DecryptBlock(AES192_ROUNDS, ctx, mem, src, dest)

aes256_decrypt(ctx, mem, src, dest) == DecryptBlock(AES256_ROUNDS, ctx, mem, src, dest)

(***************************************************************************)
(* md4.c: the MD4 message digest.  The bit operations it adds to those of  *)
(* the AES engine: |, ~, + modulo 2^32, shifts and rotl32.                 *)
(***************************************************************************)
RECURSIVE BitOr(_, _, _)
BitOr(a, b, n) ==
  IF n = 0 THEN 0
  ELSE (((a % 2) + (b % 2) + 1) \div 2) + 2 * BitOr(a \div 2, b \div 2, n - 1)

Or4 == [a \in 0..15 |-> [b \in 0..15 |-> BitOr(a, b, 4)] @@ << >>] @@ << >>

ByteOr(a, b) == 16 * Or4[a \div 16][b \div 16] + Or4[a % 16][b % 16]

\* u | v and ~u for 32-bit words
Or32(u, v) ==
  << ByteOr(u[1], v[1]), ByteOr(u[2], v[2]),
     ByteOr(u[3], v[3]), ByteOr(u[4], v[4]) >>

Not32(u) == << 255 - u[1], 255 - u[2], 255 - u[3], 255 - u[4] >>

\* the halves of a word as numbers, and the word of two halves
Hi16(u) == 256 * u[1] + u[2]

Lo16(u) == 256 * u[3] + u[4]

Word16(hi, lo) == << hi \div 256, hi % 256, lo \div 256, lo % 256 >>

\* u + v on uint32_t: the carry out of bit 31 is lost
Add32(u, v) ==
  Word16((Hi16(u) + Hi16(v) + ((Lo16(u) + Lo16(v)) \div 65536)) % 65536,
         (Lo16(u) + Lo16(v)) % 65536)

\* byte p of a word, p = 0 the least significant; 0 beyond the word
ByteAt(w, p) == IF p \in 0..3 THEN w[4 - p] ELSE 0

\* val << n and val >> n on uint32_t, 0 <= n <= 31
Shl32(val, n) ==
  [k \in 1..4 |->
     ((ByteAt(val, (4 - k) - (n \div 8)) * (2 ^ (n % 8))) % 256)
     + (ByteAt(val, (4 - k) - (n \div 8) - 1) \div (2 ^ (8 - (n % 8))))] @@ << >>

Shr32(val, n) ==
  [k \in 1..4 |->
     (ByteAt(val, (4 - k) + (n \div 8)) \div (2 ^ (n % 8)))
     + ((ByteAt(val, (4 - k) + (n \div 8) + 1) * (2 ^ (8 - (n % 8)))) % 256)] @@ << >>

\* circularshift.h: (val << (shift & 31)) | (val >> ((-shift) & 31))
rotl32(val, shift) ==
  Or32(Shl32(val, shift % 32), Shr32(val, (32 - (shift % 32)) % 32))

\* bswap.h, little-endian
buff_get_le32(ptr, off) ==
  << ptr[off + 3], ptr[off + 2], ptr[off + 1], ptr[off] >>

buff_put_le32(ptr, off, val) ==
  [ptr EXCEPT ![off] = ShrByte(val, 0),
              ![off + 1] = ShrByte(val, 8),
              ![off + 2] = ShrByte(val, 16),
              ![off + 3] = ShrByte(val, 24)]

\* byte (val >> sh) & 0xff of a uint64_t; the counts of this model stay
\* below 2^31, so the bytes from bit 32 on are 0
ShrByte64(val, sh) == IF sh < 32 THEN (val \div (2 ^ sh)) % 256 ELSE 0

buff_put_le64(ptr, off, val) ==
  [i \in DOMAIN ptr |->
     IF i \in off..(off + 7) THEN ShrByte64(val, 8 * (i - off)) ELSE ptr[i]]

\* memcpy (dst + d, src + s, n) for a buffer dst and a byte sequence src, and
\* memset (dst + d, c, n)
\* memcpy (&dst[d], src + s, n): a write past the end of dst shows as an
\* index outside the array
memcpy(dst, d, src, s, n) ==
  [i \in DOMAIN dst \cup d..(d + n - 1) |->
     IF i \in d..(d + n - 1) THEN src[s + (i - d) + 1] ELSE dst[i]]

\* memset (&dst[d], c, n)
memset(dst, d, c, n) ==
  [i \in DOMAIN dst \cup d..(d + n - 1) |->
     IF i \in d..(d + n - 1) THEN c ELSE dst[i]]

MD4_BLOCK_SIZE == 64

MD4_DIGEST_SIZE == 16

\* "Functions used by MD4."
F1(b, c, d) == Or32(And32(b, c), And32(Not32(b), d))

\* a majority function that leaves out the term (c) & (d)
Mut_F2_NoCD(b, c, d) == Or32(And32(b, c), And32(b, d))

F2(b, c, d) == Or32(Or32(And32(b, c), And32(b, d)), And32(c, d))

F3(b, c, d) == Xor32(Xor32(b, c), d)

\* f (b, c, d) for the macro argument f
MD4_F(f, b, c, d) ==
  IF f = "F1" THEN F1(b, c, d) ELSE IF f = "F2" THEN F2(b, c, d) ELSE F3(b, c, d)

\* (a) += f ((b), (c), (d)) + (x); (a) = rotl32 ((a), (s));
MD4_STEP(f, a, b, c, d, x, s) == rotl32(Add32(a, Add32(MD4_F(f, b, c, d), x)), s)

\* The 48 MD4_STEP lines of md4_transform, numbered 0 .. 47: the function,
\* the index of the word of w, the constant added to it and the shift.
StepF(k) == IF k < 16 THEN "F1" ELSE IF k < 32 THEN "F2" ELSE "F3"

StepWord ==
  << 0, 1, 2, 3, 4, 5, 6, 7, 8, 9, 10, 11, 12, 13, 14, 15,
     0, 4, 8, 12, 1, 5, 9, 13, 2, 6, 10, 14, 3, 7, 11, 15,
     0, 8, 4, 12, 2, 10, 6, 14, 1, 9, 5, 13, 3, 11, 7, 15 >>

StepShift ==
  << 3, 7, 11, 19, 3, 7, 11, 19, 3, 7, 11, 19, 3, 7, 11, 19,
     3, 5, 9, 13, 3, 5, 9, 13, 3, 5, 9, 13, 3, 5, 9, 13,
     3, 9, 11, 15, 3, 9, 11, 15, 3, 9, 11, 15, 3, 9, 11, 15 >>

\* 0x5a827999 and 0x6ed9eba1
K2 == <<90, 130, 121, 153>>

K3 == <<110, 217, 235, 161>>

\* the argument x of step k: w[i], w[i] + 0x5a827999 or w[i] + 0x6ed9eba1
StepX(w, k) ==
  IF k < 16 THEN w[StepWord[k + 1]]
  ELSE IF k < 32 THEN Add32(w[StepWord[k + 1]], K2)
  ELSE Add32(w[StepWord[k + 1]], K3)

\* The registers are the tuple <<a, b, c, d>>.  Step k writes the register
\* Target(k), in the order a, d, c, b, and reads the three after it.
Target(k) == ((4 - (k % 4)) % 4) + 1

Reg(r, t, j) == r[((t + j - 1) % 4) + 1]

Md4Step(r, w, k) ==
  [r EXCEPT ![Target(k)] =
     MD4_STEP(StepF(k), Reg(r, Target(k), 0), Reg(r, Target(k), 1),
              Reg(r, Target(k), 2), Reg(r, Target(k), 3),
              StepX(w, k), StepShift[k + 1])]

\* steps k .. end - 1 in order
RECURSIVE Md4Steps(_, _, _, _)
Md4Steps(r, w, k, end) ==
  IF k = end THEN r ELSE After(r, Md4Steps(Md4Step(r, w, k), w, k + 1, end))

\* the sixteen steps from step k on: one round
Md4Round(r, w, k) == Md4Steps(r, w, k, k + 16)

\* w[i] = buff_get_le32 (block + i * 4)
Md4Words(block) == [i \in 0..15 |-> buff_get_le32(block, 4 * i)] @@ << >>

\* state[i] += the register i after the 48 steps
Md4Sum(state, r) == [i \in 0..3 |-> Add32(state[i], r[i + 1])] @@ << >>

md4_transform(state, block) ==
  Md4Sum(state,
         Md4Round(Md4Round(Md4Round(<<state[0], state[1], state[2], state[3]>>,
                                    Md4Words(block), 0),
                           Md4Words(block), 16),
                  Md4Words(block), 32))

md4_init(ctx) ==
  [ctx EXCEPT !.state = (0 :> <<103, 69, 35, 1>>) @@ (1 :> <<239, 205, 171, 137>>)
                        @@ (2 :> <<152, 186, 220, 254>>) @@ (3 :> <<16, 50, 84, 118>>),
              !.count = 0]

\* the 64 bytes of input from offset off on, as a block
InputBlock(input, off) == [i \in 0..(MD4_BLOCK_SIZE - 1) |-> input[off + i + 1]] @@ << >>

\* "Handle as many blocks as possible." and "Save any remaining bytes.", with
\* input + off the current value of input
RECURSIVE Md4Blocks(_, _, _)
Md4Blocks(ctx, input, off) ==
  IF Len(input) - off >= MD4_BLOCK_SIZE
  THEN After(ctx, Md4Blocks([ctx EXCEPT !.state =
                               md4_transform(@, InputBlock(input, off))],
                            input, off + MD4_BLOCK_SIZE))
  ELSE IF Len(input) - off # 0
  THEN [ctx EXCEPT !.buffer = memcpy(@, 0, input, off, Len(input) - off)]
  ELSE ctx

\* "Check if we need to finish the buffer in ctx.", for filled # 0
Md4Finish(ctx, input, filled, need) ==
  [ctx EXCEPT !.buffer = memcpy(@, filled, input, 0, need),
              !.state = md4_transform(@, memcpy(ctx.buffer, filled, input, 0, need))]

\* md4_update after ctx->count += inputlen << 3, for inputlen # 0
Md4Fill(ctx, input, filled, need) ==
  IF Len(input) < need
  THEN [ctx EXCEPT !.buffer = memcpy(@, filled, input, 0, Len(input))]
  ELSE IF filled # 0
  THEN Md4Blocks(Md4Finish(ctx, input, filled, need), input, need)
  ELSE Md4Blocks(ctx, input, 0)

\* an md4_update that takes the buffer to be empty
Mut_Filled_Zero(ctx) == 0

\* filled = (ctx->count >> 3) & (MD4_BLOCK_SIZE - 1)
Filled(ctx) == (ctx.count \div 8) % MD4_BLOCK_SIZE

\* input is the sequence of the inputlen bytes at inputptr
md4_update(ctx, input) ==
  IF Len(input) = 0 THEN ctx
  ELSE Md4Fill([ctx EXCEPT !.count = @ + 8 * Len(input)], input,
               Filled(ctx), MD4_BLOCK_SIZE - Filled(ctx))

\* ctx->buffer[padoffset++] = 0x80 and the padding with zeros, with a
\* transform when there is no room for the count
\* room for the count only below byte 55
Mut_Md4Room_Below55(padoffset) == padoffset <= 55

\* "Enough room for count.": padoffset <= 56, after padoffset++
Md4Room(padoffset) == padoffset <= 56

\* "Not enough room for count.": the buffer with 0x80 and zeros to its end
Md4Full(buffer, padoffset) ==
  memset(memset(buffer, padoffset, 128, 1), padoffset + 1, 0,
         MD4_BLOCK_SIZE - (padoffset + 1))

Md4Pad(ctx, padoffset) ==
  IF Md4Room(padoffset + 1)
  THEN [ctx EXCEPT !.buffer =
          memset(memset(@, padoffset, 128, 1), padoffset + 1, 0,
                 56 - (padoffset + 1))]
  ELSE [ctx EXCEPT !.state = md4_transform(@, Md4Full(ctx.buffer, padoffset)),
                   !.buffer = memset(Md4Full(@, padoffset), 0, 0, 56)]

\* "Append the count and handle the block."
Md4Count(ctx) ==
  [ctx EXCEPT !.buffer = buff_put_le64(@, 56, ctx.count),
              !.state = md4_transform(@, buff_put_le64(ctx.buffer, 56, ctx.count))]

\* buff_put_le32 (digest + i * 4, ctx->state[i]) for i = 0 .. 3
Md4Digest(digest, state) ==
  buff_put_le32(buff_put_le32(buff_put_le32(buff_put_le32(
    digest, 0, state[0]), 4, state[1]), 8, state[2]), 12, state[3])

\* memset (ctx, 0, sizeof (*ctx))
Md4Zero ==
  [state |-> [i \in 0..3 |-> Zero32], count |-> 0,
   buffer |-> [i \in 0..(MD4_BLOCK_SIZE - 1) |-> 0]]

\* the blocks md4_final passes to md4_transform, in order
Md4FinalBlocks(ctx) ==
  IF Md4Room(Filled(ctx) + 1)
  THEN <<Md4Count(Md4Pad(ctx, Filled(ctx))).buffer>>
  ELSE <<Md4Full(ctx.buffer, Filled(ctx)),
         Md4Count(Md4Pad(ctx, Filled(ctx))).buffer>>

\* md4_final returns the digest buffer and the context as it leaves them
md4_final(digest, ctx) ==
  [digest |-> Md4Digest(digest, Md4Count(Md4Pad(ctx, Filled(ctx))).state),
   ctx |-> Md4Zero]
(***************************************************************************)
(* blake2b.c: the buffering of BLAKE2b.  The chaining value ctx->state is  *)
(* kept as the parameter word of the init and the list of compressions     *)
(* applied to it since: each compression is a function of the chaining     *)
(* value, the block, the counter t and the flags f at that moment.         *)
(* A uint64_t counter is an integer; with the inputs of this model its     *)
(* sums stay far below 2^64.                                               *)
(***************************************************************************)
BLAKE2B_DIGEST_SIZE == 64

BLAKE2B_KEY_SIZE == 64

BLAKE2B_BLOCK_SIZE == 128

\* the flag words 0 and (uint64_t)-1, as bytes
Zero64 == <<0, 0, 0, 0, 0, 0, 0, 0>>

Ones64 == <<255, 255, 255, 255, 255, 255, 255, 255>>

\* t[0] += inc; if (t[0] < inc) t[1]++
BLAKE2B_INCREMENT_COUNTER(ctx, inc) ==
  [ctx EXCEPT !.t = [i \in 0..1 |->
     IF i = 0 THEN ctx.t[0] + inc
     ELSE IF ctx.t[0] + inc < inc THEN ctx.t[1] + 1 ELSE ctx.t[1]]]

\* f[0] = (uint64_t)-1
BLAKE2B_SET_LAST_BLOCK(ctx) == [ctx EXCEPT !.f = [i \in 0..1 |-> IF i = 0 THEN Ones64 ELSE ctx.f[1]]]

\* state[0] ^= 0x01010000 | (keylen << 8) | digestlen on the initial vector
Blake2bIv(keylen, digestlen) ==
  [param |-> [keylen |-> keylen, digestlen |-> digestlen], blocks |-> << >>]

blake2b_init(ctx, digestlen) ==
  [state |-> Blake2bIv(0, digestlen),
   t |-> [i \in 0..1 |-> 0],
   f |-> [i \in 0..1 |-> Zero64],
   buffer |-> ctx.buffer,
   bufferlen |-> 0,
   digestlen |-> digestlen]

\* key is the sequence of the keylen bytes at key
blake2b_init_key(ctx, digestlen, key) ==
  [state |-> Blake2bIv(Len(key), digestlen),
   t |-> [i \in 0..1 |-> 0],
   f |-> [i \in 0..1 |-> Zero64],
   buffer |-> memset(memcpy(ctx.buffer, 0, key, 0, Len(key)), Len(key), 0,
                     BLAKE2B_BLOCK_SIZE - Len(key)),
   bufferlen |-> BLAKE2B_BLOCK_SIZE,
   digestlen |-> digestlen]

\* the 128 bytes at blocks + off, for blocks a byte sequence
Blake2bBlock(blocks, off) ==
  [i \in 0..(BLAKE2B_BLOCK_SIZE - 1) |-> blocks[off + i + 1]] @@ << >>

\* the array ctx->buffer as the byte sequence at its address
BufferSeq(buffer) == [i \in 1..BLAKE2B_BLOCK_SIZE |-> buffer[i - 1]] @@ << >>

\* one turn of the loop of blake2b_compress_blocks after the counter is
\* incremented: m, v and the rounds read the block, state, t and f
Blake2bCompress(ctx, block) ==
  [ctx EXCEPT !.state.blocks = Append(@, [m |-> block, t |-> ctx.t, f |-> ctx.f])]

\* blocks + off is the current value of blocks
RECURSIVE blake2b_compress_blocks(_, _, _, _, _)
blake2b_compress_blocks(ctx, blocks, off, count, increment) ==
  IF count = 0 THEN ctx
  ELSE After(ctx, blake2b_compress_blocks(
         Blake2bCompress(BLAKE2B_INCREMENT_COUNTER(ctx, increment),
                         Blake2bBlock(blocks, off)),
         blocks, off + BLAKE2B_BLOCK_SIZE, count - 1, increment))

\* an update that empties the buffer as soon as the input fills it
Mut_Blake2bOver_Full(inputlen, need) == inputlen >= need

\* if (inputlen > need)
Blake2bOver(inputlen, need) == inputlen > need

\* "Compress the buffer first.": the context and the bytes of input used
Blake2bFirst(ctx, input, need) ==
  IF Blake2bOver(Len(input), need)
  THEN [ctx |-> [blake2b_compress_blocks(
                   [ctx EXCEPT !.buffer = memcpy(@, ctx.bufferlen, input, 0, need)],
                   BufferSeq(memcpy(ctx.buffer, ctx.bufferlen, input, 0, need)),
                   0, 1, BLAKE2B_BLOCK_SIZE)
                 EXCEPT !.bufferlen = 0],
        off |-> need]
  ELSE [ctx |-> ctx, off |-> 0]

\* count = (inputlen + BLAKE2B_BLOCK_SIZE - 1) / BLAKE2B_BLOCK_SIZE
Blake2bCount(inputlen) == (inputlen + BLAKE2B_BLOCK_SIZE - 1) \div BLAKE2B_BLOCK_SIZE

\* "Compress all blocks except for one.", with input + s.off the current
\* value of input
Blake2bBulk(s, input) ==
  IF Len(input) - s.off > BLAKE2B_BLOCK_SIZE
  THEN [ctx |-> blake2b_compress_blocks(s.ctx, input, s.off,
                  Blake2bCount(Len(input) - s.off) - 1, BLAKE2B_BLOCK_SIZE),
        off |-> s.off + BLAKE2B_BLOCK_SIZE * (Blake2bCount(Len(input) - s.off) - 1)]
  ELSE s

\* "Save the remaining bytes from input."
Blake2bSave(s, input) ==
  [s.ctx EXCEPT !.buffer = memcpy(@, s.ctx.bufferlen, input, s.off, Len(input) - s.off),
                !.bufferlen = @ + (Len(input) - s.off)]

\* input is the sequence of the inputlen bytes at inputptr
blake2b_update(ctx, input) ==
  IF Len(input) = 0 THEN ctx
  ELSE Blake2bSave(Blake2bBulk(Blake2bFirst(ctx, input,
                                            BLAKE2B_BLOCK_SIZE - ctx.bufferlen),
                               input), input)

\* memset (ctx, 0, sizeof (*ctx))
Blake2bZero ==
  [state |-> Blake2bIv(0, 0),
   t |-> [i \in 0..1 |-> 0],
   f |-> [i \in 0..1 |-> Zero64],
   buffer |-> [i \in 0..(BLAKE2B_BLOCK_SIZE - 1) |-> 0],
   bufferlen |-> 0,
   digestlen |-> 0]

\* the context of blake2b_final after its compression
Blake2bLast(ctx) ==
  blake2b_compress_blocks(
    [BLAKE2B_SET_LAST_BLOCK(ctx) EXCEPT !.buffer =
       memset(@, ctx.bufferlen, 0, BLAKE2B_BLOCK_SIZE - ctx.bufferlen)],
    BufferSeq(memset(ctx.buffer, ctx.bufferlen, 0, BLAKE2B_BLOCK_SIZE - ctx.bufferlen)),
    0, 1, ctx.bufferlen)

\* blake2b_final returns the digest, the first digestlen bytes of the
\* chaining value, and the context as it leaves it
blake2b_final(ctx) ==
  [digest |-> [state |-> Blake2bLast(ctx).state, len |-> ctx.digestlen],
   ctx |-> Blake2bZero]

NoBlake2b ==
  [ctx |-> Blake2bZero, op |-> "none", key |-> << >>, input |-> << >>,
   nupd |-> 0, digest |-> [state |-> Blake2bIv(0, 0), len |-> 0]]
(***************************************************************************)
(* chacha.c: ctx->input is the 4 x 4 matrix of words, the key in 4 .. 11,  *)
(* the block counter in 12 (low) and 13 (high), the nonce in 14 and 15.    *)
(***************************************************************************)
One32 == <<0, 0, 0, 1>>

\* "expand 16-byte k" and "expand 32-byte k" as the words of input[0 .. 3]
Sigma128 == << <<97, 112, 120, 101>>, <<49, 32, 100, 110>>,
               <<121, 98, 45, 54>>, <<107, 32, 101, 116>> >>

Sigma256 == << <<97, 112, 120, 101>>, <<51, 32, 100, 110>>,
               <<121, 98, 45, 50>>, <<107, 32, 101, 116>> >>

\* key is the array of 16 bytes at key
chacha128_set_key(ctx, key) ==
  [ctx EXCEPT !.input = [i \in 0..15 |->
     IF i < 4 THEN Sigma128[i + 1]
     ELSE IF i < 8 THEN buff_get_le32(key, 4 * (i - 4))
     ELSE IF i < 12 THEN buff_get_le32(key, 4 * (i - 8))
     ELSE ctx.input[i]]]

\* key is the array of 32 bytes at key
chacha256_set_key(ctx, key) ==
  [ctx EXCEPT !.input = [i \in 0..15 |->
     IF i < 4 THEN Sigma256[i + 1]
     ELSE IF i < 12 THEN buff_get_le32(key, 4 * (i - 4))
     ELSE ctx.input[i]]]

chacha_set_key(ctx, key, keybits) ==
  IF keybits = 256 THEN chacha256_set_key(ctx, key)
  ELSE chacha128_set_key(ctx, key)

\* counter is the array of 8 bytes at counter, or << >> for NULL
chacha_set_iv(ctx, iv, counter) ==
  [ctx EXCEPT !.input = [i \in 0..15 |->
     IF i = 12 THEN (IF counter = << >> THEN Zero32 ELSE buff_get_le32(counter, 0))
     ELSE IF i = 13 THEN (IF counter = << >> THEN Zero32 ELSE buff_get_le32(counter, 4))
     ELSE IF i = 14 THEN buff_get_le32(iv, 0)
     ELSE IF i = 15 THEN buff_get_le32(iv, 4)
     ELSE ctx.input[i]]]

\* the first six and the last six statements of CHACHA_QUARTERROUND
QuarterHalf(x, a, b, c, d, s, t) ==
  LET xa == Add32(x[a], x[b])
      xd == rotl32(Xor32(x[d], xa), s)
      xc == Add32(x[c], xd)
  IN [x EXCEPT ![a] = xa, ![d] = xd, ![c] = xc,
               ![b] = rotl32(Xor32(x[b], xc), t)]

CHACHA_QUARTERROUND(x, a, b, c, d) ==
  QuarterHalf(QuarterHalf(x, a, b, c, d, 16, 12), a, b, c, d, 8, 7)

\* the body of for (i = 0; i < 20; i += 2)
DoubleRound(x) ==
  CHACHA_QUARTERROUND(CHACHA_QUARTERROUND(CHACHA_QUARTERROUND(CHACHA_QUARTERROUND(
  CHACHA_QUARTERROUND(CHACHA_QUARTERROUND(CHACHA_QUARTERROUND(CHACHA_QUARTERROUND(
    x, 0, 4, 8, 12), 1, 5, 9, 13), 2, 6, 10, 14), 3, 7, 11, 15),
    0, 5, 10, 15), 1, 6, 11, 12), 2, 7, 8, 13), 3, 4, 9, 14)

RECURSIVE ChachaRounds(_, _)
ChachaRounds(x, i) ==
  IF i < 20 THEN After(x, ChachaRounds(DoubleRound(x) @@ << >>, i + 2)) ELSE x

\* x_i += y_i; x_i ^= buff_get_le32 (src + 4 i), with x the words after the
\* rounds and src an array of 64 bytes
ChachaWords(x, y, src) ==
  [i \in 0..15 |-> Xor32(Add32(x[i], y[i]), buff_get_le32(src, 4 * i))] @@ << >>

\* buff_put_le32 (dest + 4 i, x_i): the 64 bytes stored
ChachaBytes(x) == [p \in 0..63 |-> ShrByte(x[p \div 4], 8 * (p % 4))] @@ << >>

\* the 64 bytes one turn of the loop stores, for the words y and the 64 bytes
\* src points to
ChachaBlock(y, src) == ChachaBytes(ChachaWords(ChachaRounds(y, 0), y, src))

\* a counter whose low word wraps without a carry
Mut_ChachaCount_NoCarry(y) == [y EXCEPT ![12] = Add32(y[12], One32)]

\* "Increment counter.": if (++y12 == 0) y13++
ChachaCount(y) ==
  [y EXCEPT ![12] = Add32(y[12], One32),
            ![13] = IF Add32(y[12], One32) = Zero32 THEN Add32(y[13], One32)
                    ELSE y[13]]

\* what src points to in a turn of the loop: the local buffer, its first len
\* bytes copied from src + off, when len < 64, and src + off otherwise.  The
\* rest of the local buffer is what the stack held: junk.
ChachaSrc(src, off, len, junk) ==
  [p \in 0..63 |->
     IF len < 64 THEN (IF p < len THEN src[off + p + 1] ELSE junk[p])
     ELSE src[off + p + 1]]

\* dest with the first n bytes of block stored at dest + off
ChachaStore(dest, off, block, n) ==
  [p \in DOMAIN dest \cup off..(off + n - 1) |->
     IF p \in off..(off + n - 1) THEN block[p - off] ELSE dest[p]]

\* the loop for (;; len -= 64, src += 64, dest += 64): y the words y0 .. y15,
\* off the advance of src and dest, len the bytes left.  It yields the
\* context and dest as the return leaves them.
RECURSIVE ChachaLoop(_, _, _, _, _, _, _)
ChachaLoop(ctx, y, src, dest, off, len, junk) ==
  IF len <= 64
  THEN [ctx |-> [ctx EXCEPT !.input[12] = ChachaCount(y)[12],
                            !.input[13] = ChachaCount(y)[13]],
        dest |-> ChachaStore(dest, off,
                   ChachaBlock(y, ChachaSrc(src, off, len, junk)), len)]
  ELSE After(dest, ChachaLoop(ctx, ChachaCount(y), src,
               ChachaStore(dest, off,
                 ChachaBlock(y, ChachaSrc(src, off, len, junk)), 64) @@ << >>,
               off + 64, len - 64, junk))

\* src is the sequence of the len bytes at src, dest the caller's array, junk
\* the bytes of the local buffer at entry
chacha_encrypt_bytes(ctx, src, dest, junk) ==
  IF Len(src) = 0 THEN [ctx |-> ctx, dest |-> dest]
  ELSE ChachaLoop(ctx, ctx.input, src, dest, 0, Len(src), junk)

\* no call made; dest is the caller's array of 192 bytes
NoChacha ==
  [ctx |-> [input |-> [i \in 0..15 |-> Zero32]], op |-> "none",
   before |-> [input |-> [i \in 0..15 |-> Zero32]], len |-> 0, ncalls |-> 0,
   dest |-> [p \in 0..191 |-> 0]]
(***************************************************************************)
(* arc4.c: the context is the array state of 256 entries and the indices   *)
(* i and j.  The loops of arc4_set_key and arc4_crypt are taken one turn   *)
(* at a time.                                                              *)
(***************************************************************************)
\* a swap that loses the entry it saved
Mut_Arc4Swap_Overwrite(state, i, j) == [state EXCEPT ![i] = state[j], ![j] = state[j]]

\* t = state[i]; state[i] = state[j]; state[j] = t
Arc4Swap(state, i, j) == [state EXCEPT ![i] = state[j], ![j] = state[i]]

\* for (i = 0; i < 256; ++i) ctx->state[i] = i
Arc4Fill == [i \in 0..255 |-> i]

\* i = j = k = 0 at the head of the second loop of arc4_set_key
Arc4Locals == [i |-> 0, j |-> 0, k |-> 0]

\* one turn of the second loop of arc4_set_key, l its locals i, j and k; key
\* is the sequence of the keylen bytes at key and x & 0xff is x % 256
Arc4KeyTurn(state, l, key) ==
  [state |-> Arc4Swap(state, l.i, (l.j + state[l.i] + key[l.k + 1]) % 256),
   l |-> [i |-> l.i + 1,
          j |-> (l.j + state[l.i] + key[l.k + 1]) % 256,
          k |-> IF l.k + 1 >= Len(key) THEN 0 ELSE l.k + 1]]

\* ctx->i = (ctx->i + 1) & 0xff; ctx->j = (ctx->j + ctx->state[ctx->i]) & 0xff
Arc4Advance(c) ==
  [c EXCEPT !.i = (c.i + 1) % 256,
            !.j = (c.j + c.state[(c.i + 1) % 256]) % 256]

\* the swap of one turn of the loop of arc4_crypt, after the indices moved
Arc4Mix(c) == [c EXCEPT !.state = Arc4Swap(@, c.i, c.j)]

\* dest[i] = src[i] ^ state[(state[ctx->i] + state[ctx->j]) & 0xff], with n
\* the local i and c the context after the swap
Arc4Out(c, src, dest, n) ==
  [dest EXCEPT ![n] = ByteXor(src[n + 1], c.state[(c.state[c.i] + c.state[c.j]) % 256])]

\* no call made; dest is the caller's array of 9 bytes
NoArc4 ==
  [ctx |-> [state |-> [i \in 0..255 |-> 0], i |-> 0, j |-> 0],
   pc |-> "none", l |-> Arc4Locals, key |-> << >>, keyed |-> FALSE,
   n |-> 0, src |-> << >>, dest |-> [p \in 0..8 |-> 0], ncalls |-> 0]
(***************************************************************************)
(* The callers.  One context of one variant, two caller buffers, and any   *)
(* sequence of key setups and block operations on them.                    *)
(***************************************************************************)
\* the number of block operations of a behaviour
MaxBlockOps == 2

\* the caller's two buffers
Bufs == {1, 2}

\* the (src, dest) pairs of the block operations: disjoint and in place
Transfers == {<<1, 2>>, <<2, 2>>}

\* FIPS-197 appendix C keys 00 01 02 .., and a second key
FipsKey(n) == [i \in 0..(KeySize(n) - 1) |-> i]

OtherKey(n) == [i \in 0..(KeySize(n) - 1) |-> (167 * i + 43) % 256]

\* the keys a caller passes, by number
KeyIds == {1, 2}

Key(n, k) == IF k = 1 THEN FipsKey(n) ELSE OtherKey(n)

\* FIPS-197 appendix C plaintext 00 11 22 .. ff, and a second block
FipsPlain == [i \in 0..(AES128_BLOCK_SIZE - 1) |-> 17 * i]

OtherBlock == [i \in 0..(AES128_BLOCK_SIZE - 1) |-> (89 * i + 200) % 256]

\* what a context holds before its first key setup: indeterminate words
Garbage(n, g) ==
  [ek |-> [i \in 0..(Words(n) - 1) |->
             IF g = 1 THEN <<165, 165, 165, 165>>
             ELSE <<i, 255 - i, (3 * i) % 256, 1>>],
   dk |-> [i \in 0..(Words(n) - 1) |->
             IF g = 1 THEN <<90, 90, 90, 90>>
             ELSE <<255, i, i, (5 * i) % 256>>]]

set_encrypt_key(n, ctx, key) ==
  IF n = 128 THEN aes128_set_encrypt_key(ctx, key)
  ELSE IF n = 192 THEN aes192_set_encrypt_key(ctx, key)
  ELSE aes256_set_encrypt_key(ctx, key)

set_decrypt_key(n, ctx, key) ==
  IF n = 128 THEN aes128_set_decrypt_key(ctx, key)
  ELSE IF n = 192 THEN aes192_set_decrypt_key(ctx, key)
  ELSE aes256_set_decrypt_key(ctx, key)

encrypt(n, ctx, mem, src, dest) ==
  IF n = 128 THEN aes128_encrypt(ctx, mem, src, dest)
  ELSE IF n = 192 THEN aes192_encrypt(ctx, mem, src, dest)
  ELSE aes256_encrypt(ctx, mem, src, dest)

decrypt(n, ctx, mem, src, dest) ==
  IF n = 128 THEN aes128_decrypt(ctx, mem, src, dest)
  ELSE IF n = 192 THEN aes192_decrypt(ctx, mem, src, dest)
  ELSE aes256_decrypt(ctx, mem, src, dest)

VARIABLES
  N,       \* the variant of the context: 128, 192 or 256
  ctx,     \* the context: [ek, dk]
  mem,     \* the caller's buffers
  call,    \* the last call: its name, arguments and input block
  keyed,   \* the last key setup: its name, key and the context it left
  origin,  \* per buffer: the key and plaintext whose ciphertext it holds
  nblk,    \* the number of block operations so far
  thr,     \* concurrent block operations: per thread its call and position
  probe,   \* a table entry under examination
  md,      \* an MD4 computation: its context, message and digest
  b2,      \* a BLAKE2b computation: its context and the input so far
  cha,     \* a ChaCha stream: its context and the caller's buffers
  arc      \* an ARC4 stream: its context and position in the running call

vars == <<N, ctx, mem, call, keyed, origin, nblk, thr, probe, md, b2, cha, arc>>

ZeroBlock == [i \in 0..(AES128_BLOCK_SIZE - 1) |-> 0]

NoOrigin == [valid |-> FALSE, key |-> ZeroBlock, plain |-> ZeroBlock]

NoCall ==
  [op |-> "none", key |-> ZeroBlock, src |-> 0, dest |-> 0,
   input |-> ZeroBlock, idx |-> {}, rt |-> NoOrigin]

NoThreads == [op |-> << >>, pc |-> << >>, x |-> << >>, steps |-> << >>]

NoProbe == [b |-> 0, n |-> 0, w |-> Zero32, s |-> 0]

NoDigest == [i \in 0..(MD4_DIGEST_SIZE - 1) |-> 0]

NoMd4 ==
  [ctx |-> Md4Zero, m |-> 0, pos |-> 0, nupd |-> 0, digest |-> NoDigest,
   op |-> "none", chunks |-> << >>, blocks |-> << >>]

Init ==
  /\ N \in Variants
  /\ \E g \in 1..2 : ctx = Garbage(N, g)
  /\ mem = [p \in Bufs |-> IF p = 1 THEN FipsPlain ELSE OtherBlock]
  /\ call = NoCall
  /\ keyed = [op |-> "none", key |-> ZeroBlock, ctx |-> ctx]
  /\ origin = [p \in Bufs |-> NoOrigin]
  /\ nblk = 0
  /\ thr = NoThreads
  /\ probe = NoProbe
  /\ md = NoMd4
  /\ b2 = NoBlake2b
  /\ cha = NoChacha
  /\ arc = NoArc4

SetEncryptKey(key) ==
  /\ ctx' = set_encrypt_key(N, ctx, key)
  /\ keyed' = [op |-> "set_encrypt_key", key |-> key, ctx |-> ctx']
  /\ call' = [NoCall EXCEPT !.op = "set_encrypt_key", !.key = key]
  /\ UNCHANGED <<N, mem, origin, nblk, thr, probe, md, b2, cha, arc>>

SetDecryptKey(key) ==
  /\ ctx' = set_decrypt_key(N, ctx, key)
  /\ keyed' = [op |-> "set_decrypt_key", key |-> key, ctx |-> ctx']
  /\ call' = [NoCall EXCEPT !.op = "set_decrypt_key", !.key = key]
  /\ UNCHANGED <<N, mem, origin, nblk, thr, probe, md, b2, cha, arc>>

Encrypt(src, dest) ==
  /\ keyed.op # "none"
  /\ nblk < MaxBlockOps
  /\ \E r \in {encrypt(N, ctx, mem, src, dest)} :
         /\ ctx' = r.ctx
         /\ mem' = r.mem
         /\ call' = [NoCall EXCEPT !.op = "encrypt", !.src = src,
                                   !.dest = dest, !.input = mem[src],
                                   !.idx = r.idx]
  /\ origin' = [origin EXCEPT ![dest] =
                  IF keyed.op = "set_encrypt_key"
                  THEN [valid |-> TRUE, key |-> keyed.key, plain |-> mem[src]]
                  ELSE NoOrigin]
  /\ nblk' = nblk + 1
  /\ UNCHANGED <<N, keyed, thr, probe, md, b2, cha, arc>>

Decrypt(src, dest) ==
  /\ keyed.op # "none"
  /\ nblk < MaxBlockOps
  /\ \E r \in {decrypt(N, ctx, mem, src, dest)} :
         /\ ctx' = r.ctx
         /\ mem' = r.mem
         /\ call' = [NoCall EXCEPT !.op = "decrypt", !.src = src,
                                   !.dest = dest, !.input = mem[src],
                                   !.idx = r.idx,
                                   !.rt = IF /\ keyed.op = "set_decrypt_key"
                                             /\ origin[src].valid
                                             /\ origin[src].key = keyed.key
                                          THEN origin[src] ELSE NoOrigin]
  /\ origin' = [origin EXCEPT ![dest] = NoOrigin]
  /\ nblk' = nblk + 1
  /\ UNCHANGED <<N, keyed, thr, probe, md, b2, cha, arc>>

Next ==
  \/ \E k \in KeyIds : SetEncryptKey(Key(N, k))
  \/ \E k \in KeyIds : SetDecryptKey(Key(N, k))
  \/ \E t \in Transfers : Encrypt(t[1], t[2])
  \/ \E t \in Transfers : Decrypt(t[1], t[2])

Spec == Init /\ [][Next]_vars


(***************************************************************************)
(* Concurrent callers.  Two threads run one block operation each on the    *)
(* same keyed context, with their own src and dest buffers; a step of a    *)
(* thread is one round of its call.  The words x0 .. x3, y0 .. y3 of a     *)
(* call are automatic variables, one set per call.                         *)
(***************************************************************************)
Threads == {1, 2}

\* the buffers of the call of thread t
Src(t) == 2 * t - 1

Dest(t) == 2 * t

\* words x0 .. x3, y0 .. y3 with static storage: one set for all calls
Mut_Local_Static(t) == 1

\* the automatic variables of the call of thread t
Local(t) == t

ZeroState == <<Zero32, Zero32, Zero32, Zero32>>

ConcMem ==
  (1 :> FipsPlain) @@ (2 :> ZeroBlock) @@ (3 :> OtherBlock) @@ (4 :> ZeroBlock)

InitConc ==
  /\ N \in Variants
  /\ ctx = set_decrypt_key(N, Garbage(N, 1), FipsKey(N))
  /\ mem = ConcMem
  /\ call = NoCall
  /\ keyed = [op |-> "set_decrypt_key", key |-> FipsKey(N), ctx |-> ctx]
  /\ origin = [p \in Bufs |-> NoOrigin]
  /\ nblk = 0
  /\ \E o \in [Threads -> {"encrypt", "decrypt"}] :
       thr = [op |-> o, pc |-> [t \in Threads |-> 0],
              x |-> [t \in Threads |-> ZeroState],
              steps |-> [t \in Threads |-> << >>]]
  /\ probe = NoProbe
  /\ md = NoMd4
  /\ b2 = NoBlake2b
  /\ cha = NoChacha
  /\ arc = NoArc4

\* the groups of the round-key words rk[4 * r + i] that a round r reads
GroupsRead(r) == {RkIndex(r, i) \div 4 : i \in 0..3}

\* a step of a call: its kind and the round-key groups it reads
Step(kind, r) == [kind |-> kind, groups |-> GroupsRead(r)]

\* ctx->ek in aesN_encrypt, ctx->dk in aesN_decrypt
RoundKeys(t) == IF thr.op[t] = "encrypt" THEN ctx.ek ELSE ctx.dk

\* the loads of src and the first key addition
ThreadFirst(t) ==
  /\ thr.pc[t] = 0
  /\ thr' = [thr EXCEPT !.pc[t] = 1,
                        !.x[Local(t)] = AddFirstKey(RoundKeys(t), mem[Src(t)]),
                        !.steps[t] = Append(@, Step("first", 0))]
  /\ UNCHANGED <<N, ctx, mem, call, keyed, origin, nblk, probe, md, b2, cha, arc>>

\* "Round r" for r = thr.pc[t]
ThreadRound(t) ==
  /\ thr.pc[t] \in 1..(Rounds(N) - 1)
  /\ thr' = [thr EXCEPT !.pc[t] = @ + 1,
                        !.x[Local(t)] =
                          IF thr.op[t] = "encrypt"
                          THEN EncRound(RoundKeys(t), thr.pc[t], @)
                          ELSE DecRound(RoundKeys(t), thr.pc[t], @),
                        !.steps[t] = Append(@, Step("round", thr.pc[t]))]
  /\ UNCHANGED <<N, ctx, mem, call, keyed, origin, nblk, probe, md, b2, cha, arc>>

\* the last round and the stores to dest
ThreadLast(t) ==
  /\ thr.pc[t] = Rounds(N)
  /\ \E z \in {IF thr.op[t] = "encrypt"
                 THEN EncLast(RoundKeys(t), Rounds(N), thr.x[Local(t)])
                 ELSE DecLast(RoundKeys(t), Rounds(N), thr.x[Local(t)])} :
         /\ thr' = [thr EXCEPT !.pc[t] = @ + 1, !.x[Local(t)] = z,
                               !.steps[t] = Append(@, Step("last", Rounds(N)))]
         /\ mem' = [mem EXCEPT ![Dest(t)] = PutBlock(@, z)]
  /\ UNCHANGED <<N, ctx, call, keyed, origin, nblk, probe, md, b2, cha, arc>>

NextConc ==
  \/ \E t \in Threads : ThreadFirst(t)
  \/ \E t \in Threads : ThreadRound(t)
  \/ \E t \in Threads : ThreadLast(t)

SpecConc == InitConc /\ [][NextConc]_vars

\* a call, once entered, runs: no thread waits for anything
ThreadStep(t) == ThreadFirst(t) \/ ThreadRound(t) \/ ThreadLast(t)

SpecConcFair == SpecConc /\ \A t \in Threads : WF_vars(ThreadStep(t))

(***************************************************************************)
(* The tables.  Every entry b of every table te_n is read and put through  *)
(* the InvMixColumns construction of the decryption key setup, and through *)
(* the S-box and its inverse.                                              *)
(***************************************************************************)
Td(n) == IF n = 0 THEN td0 ELSE IF n = 1 THEN td1 ELSE IF n = 2 THEN td2 ELSE td3

\* a table lane that is always te0
Mut_Te_Lane0(n) == te0

\* an S-box read from the byte 02 * S[b] of te1[b]
Mut_SBox_Shift16(b) == ShrByte(Tab(te1, b), 16)

\* an S-box read from the low byte 03 * S[b] of te0[b]
Mut_SBox_te0(b) == ShrByte(Tab(te0, b), 0)

Te(n) == IF n = 0 THEN te0 ELSE IF n = 1 THEN te1 ELSE IF n = 2 THEN te2 ELSE te3

\* S[b] = te1[b] & 0xff
SBox(b) == ShrByte(Tab(te1, b), 0)

Probe(b, n) ==
  [b |-> b, n |-> n, w |-> InvMixWord(Tab(Te(n), b)), s |-> Tab(si, SBox(b))]

InitTables ==
  /\ N = 128
  /\ ctx = Garbage(N, 1)
  /\ mem = [p \in Bufs |-> IF p = 1 THEN FipsPlain ELSE OtherBlock]
  /\ call = NoCall
  /\ keyed = [op |-> "none", key |-> ZeroBlock, ctx |-> ctx]
  /\ origin = [p \in Bufs |-> NoOrigin]
  /\ nblk = 0
  /\ thr = NoThreads
  /\ probe = Probe(0, 0)
  /\ md = NoMd4
  /\ b2 = NoBlake2b
  /\ cha = NoChacha
  /\ arc = NoArc4

NextByte ==
  /\ probe.b < 255
  /\ probe' = Probe(probe.b + 1, probe.n)
  /\ UNCHANGED <<N, ctx, mem, call, keyed, origin, nblk, thr, md, b2, cha, arc>>

NextLane ==
  /\ probe.n < 3
  /\ probe' = Probe(probe.b, probe.n + 1)
  /\ UNCHANGED <<N, ctx, mem, call, keyed, origin, nblk, thr, md, b2, cha, arc>>

NextTables == NextByte \/ NextLane

SpecTables == InitTables /\ [][NextTables]_vars
(***************************************************************************)
(* test-md4.c: the test messages and digests, and the MD4 state machine.   *)
(***************************************************************************)
\* testcases[m - 1].message as bytes
TestMessage ==
  << <<  >>,
     << 97 >>,
     << 97, 98, 99 >>,
     << 109, 101, 115, 115, 97, 103, 101, 32, 100, 105, 103, 101, 115, 116 >>,
     << 97, 98, 99, 100, 101, 102, 103, 104, 105, 106, 107, 108, 109, 110, 111, 112,
        113, 114, 115, 116, 117, 118, 119, 120, 121, 122 >>,
     << 65, 66, 67, 68, 69, 70, 71, 72, 73, 74, 75, 76, 77, 78, 79, 80,
        81, 82, 83, 84, 85, 86, 87, 88, 89, 90, 97, 98, 99, 100, 101, 102,
        103, 104, 105, 106, 107, 108, 109, 110, 111, 112, 113, 114, 115, 116, 117, 118,
        119, 120, 121, 122, 48, 49, 50, 51, 52, 53, 54, 55, 56, 57 >>,
     << 49, 50, 51, 52, 53, 54, 55, 56, 57, 48, 49, 50, 51, 52, 53, 54,
        55, 56, 57, 48, 49, 50, 51, 52, 53, 54, 55, 56, 57, 48, 49, 50,
        51, 52, 53, 54, 55, 56, 57, 48, 49, 50, 51, 52, 53, 54, 55, 56,
        57, 48, 49, 50, 51, 52, 53, 54, 55, 56, 57, 48, 49, 50, 51, 52,
        53, 54, 55, 56, 57, 48, 49, 50, 51, 52, 53, 54, 55, 56, 57, 48 >> >>

\* testcases[m - 1].digest
TestDigest ==
  << << 49, 214, 207, 224, 209, 106, 233, 49, 183, 60, 89, 215, 224, 192, 137, 192 >>,
     << 189, 229, 44, 179, 29, 227, 62, 70, 36, 94, 5, 251, 219, 214, 251, 36 >>,
     << 164, 72, 1, 122, 175, 33, 216, 82, 95, 193, 10, 232, 122, 166, 114, 157 >>,
     << 217, 19, 10, 129, 100, 84, 159, 232, 24, 135, 72, 6, 225, 199, 1, 75 >>,
     << 215, 158, 28, 48, 138, 165, 187, 205, 238, 168, 237, 99, 223, 65, 45, 169 >>,
     << 4, 63, 133, 130, 242, 65, 219, 53, 28, 230, 39, 225, 83, 231, 240, 228 >>,
     << 227, 59, 77, 220, 156, 56, 242, 25, 156, 62, 123, 22, 79, 204, 5, 54 >> >>

Tests == 1..7

\* the most calls of md4_update on one context
MaxUpdates == 3

\* what a struct md4_ctx holds before md4_init: indeterminate bytes
Md4Garbage(g) ==
  [state |-> [i \in 0..3 |-> <<g, 17 * i, 255 - g, 3>>], count |-> 1000 * g + 8,
   buffer |-> [i \in 0..(MD4_BLOCK_SIZE - 1) |-> (g * 37 + i) % 256]]

\* the lengths of input a caller passes when rest bytes of the message remain
Chunks(rest) == {0, rest} \cup {n \in {1, 30, 55, 56, 64} : n < rest}

InitMd4 ==
  /\ N = 128
  /\ ctx = Garbage(N, 1)
  /\ mem = [p \in Bufs |-> IF p = 1 THEN FipsPlain ELSE OtherBlock]
  /\ call = NoCall
  /\ keyed = [op |-> "none", key |-> ZeroBlock, ctx |-> ctx]
  /\ origin = [p \in Bufs |-> NoOrigin]
  /\ nblk = 0
  /\ thr = NoThreads
  /\ probe = NoProbe
  /\ \E g \in 1..2 : md = [NoMd4 EXCEPT !.ctx = Md4Garbage(g)]
  /\ b2 = NoBlake2b
  /\ cha = NoChacha
  /\ arc = NoArc4

Md4Init(m) ==
  /\ md.op = "none"
  /\ md' = [md EXCEPT !.ctx = md4_init(@), !.m = m, !.op = "md4_init"]
  /\ UNCHANGED <<N, ctx, mem, call, keyed, origin, nblk, thr, probe, b2, cha, arc>>

Md4Update(n) ==
  /\ md.op \in {"md4_init", "md4_update"}
  /\ md.nupd < MaxUpdates
  /\ n \in Chunks(Len(TestMessage[md.m]) - md.pos)
  /\ md' = [md EXCEPT !.ctx = md4_update(@, SubSeq(TestMessage[md.m],
                                                    md.pos + 1, md.pos + n)),
                       !.pos = @ + n, !.nupd = @ + 1, !.op = "md4_update",
                       !.chunks = Append(@, n)]
  /\ UNCHANGED <<N, ctx, mem, call, keyed, origin, nblk, thr, probe, b2, cha, arc>>

Md4Final ==
  /\ md.op \in {"md4_init", "md4_update"}
  /\ \E r \in {md4_final(md.digest, md.ctx)} :
       md' = [md EXCEPT !.ctx = r.ctx, !.digest = r.digest, !.op = "md4_final",
                        !.blocks = Md4FinalBlocks(md.ctx)]
  /\ UNCHANGED <<N, ctx, mem, call, keyed, origin, nblk, thr, probe, b2, cha, arc>>

NextMd4 ==
  \/ \E m \in Tests : Md4Init(m)
  \/ \E n \in 0..80 : Md4Update(n)
  \/ Md4Final

SpecMd4 == InitMd4 /\ [][NextMd4]_vars

(***************************************************************************)
(* The round engines on their own.  aesN_encrypt and aesN_decrypt read     *)
(* nothing of a context but the words of ek and of dk, so they are run     *)
(* here on arrays that no key setup produced: ek is any array w of         *)
(* 4 (Nr + 1) words, dk what the second part of aesN_set_decrypt_key       *)
(* (swaps of the groups, table lookups on the middle groups) makes of w.   *)
(***************************************************************************)
\* the arrays w and the blocks b, by number
ScheduleIds == 1..4

BlockIds == 1..3

AnySchedule(n, s) ==
  [i \in 0..(Words(n) - 1) |->
     <<(37 * i + 11 * s) % 256, (101 * i * s + 7) % 256,
       (i * i + 29 * s) % 256, (199 * i + 63 * s * s) % 256>>]

AnyBlock(s) == [i \in 0..(AES128_BLOCK_SIZE - 1) |-> (53 * i * s + 19 * s) % 256]

InitEngine ==
  /\ N \in Variants
  /\ \E s \in ScheduleIds :
       ctx = [ek |-> AnySchedule(N, s),
              dk |-> DecryptKeys(AnySchedule(N, s), Rounds(N))]
  /\ \E b \in BlockIds :
       mem = [p \in Bufs |-> IF p = 1 THEN AnyBlock(b) ELSE ZeroBlock]
  /\ call = NoCall
  /\ keyed = [op |-> "none", key |-> ZeroBlock, ctx |-> ctx]
  /\ origin = [p \in Bufs |-> NoOrigin]
  /\ nblk = 0
  /\ thr = NoThreads
  /\ probe = NoProbe
  /\ md = NoMd4
  /\ b2 = NoBlake2b
  /\ cha = NoChacha
  /\ arc = NoArc4

\* aesN_encrypt (ctx, src, dest) on the array w
EngineEncrypt(src, dest) ==
  /\ nblk = 0
  /\ \E r \in {encrypt(N, ctx, mem, src, dest)} :
         /\ ctx' = r.ctx
         /\ mem' = r.mem
         /\ call' = [NoCall EXCEPT !.op = "encrypt", !.src = src,
                                   !.dest = dest, !.input = mem[src],
                                   !.idx = r.idx]
  /\ origin' = [origin EXCEPT ![dest] =
                  [valid |-> TRUE, key |-> ZeroBlock, plain |-> mem[src]]]
  /\ nblk' = 1
  /\ UNCHANGED <<N, keyed, thr, probe, md, b2, cha, arc>>

\* aesN_decrypt (ctx, src, dest) on the output of the encryption
EngineDecrypt(src, dest) ==
  /\ nblk = 1
  /\ origin[src].valid
  /\ \E r \in {decrypt(N, ctx, mem, src, dest)} :
         /\ ctx' = r.ctx
         /\ mem' = r.mem
         /\ call' = [NoCall EXCEPT !.op = "decrypt", !.src = src,
                                   !.dest = dest, !.input = mem[src],
                                   !.idx = r.idx, !.rt = origin[src]]
  /\ origin' = [origin EXCEPT ![dest] = NoOrigin]
  /\ nblk' = 2
  /\ UNCHANGED <<N, keyed, thr, probe, md, b2, cha, arc>>

NextEngine ==
  \/ \E t \in Transfers : EngineEncrypt(t[1], t[2])
  \/ \E t \in Bufs \X Bufs : EngineDecrypt(t[1], t[2])

SpecEngine == InitEngine /\ [][NextEngine]_vars
(***************************************************************************)
(* A caller of BLAKE2b: one init, with or without a key, then updates with *)
(* inputs of any of a few lengths, then the final.                         *)
(***************************************************************************)
\* the most calls of blake2b_update on one context
MaxBlake2bUpdates == 2

\* what a struct blake2b_ctx holds before its init: indeterminate bytes
Blake2bGarbage(g) ==
  [Blake2bZero EXCEPT !.buffer = [i \in 0..(BLAKE2B_BLOCK_SIZE - 1) |-> (g * 91 + i) % 256],
                      !.bufferlen = 1000 * g + 77,
                      !.t = [i \in 0..1 |-> 12345 * g],
                      !.f = [i \in 0..1 |-> Ones64]]

\* byte p of the caller's message, and the n bytes from position p on
MessageByte(p) == (7 * p + 3) % 256

Message(p, n) == [i \in 1..n |-> MessageByte(p + i - 1)] @@ << >>

\* the caller's key of keylen bytes
Blake2bKey(keylen) == [i \in 1..keylen |-> (11 * i + 5) % 256] @@ << >>

\* the lengths of key, digest and input a caller passes
KeyLens == {1, BLAKE2B_KEY_SIZE}

DigestLens == {32, BLAKE2B_DIGEST_SIZE}

InputLens == {0, 1, 127, 128, 129, 256, 300}

InitBlake2b ==
  /\ N = 128
  /\ ctx = Garbage(N, 1)
  /\ mem = [p \in Bufs |-> IF p = 1 THEN FipsPlain ELSE OtherBlock]
  /\ call = NoCall
  /\ keyed = [op |-> "none", key |-> ZeroBlock, ctx |-> ctx]
  /\ origin = [p \in Bufs |-> NoOrigin]
  /\ nblk = 0
  /\ thr = NoThreads
  /\ probe = NoProbe
  /\ md = NoMd4
  /\ \E g \in 1..2 : b2 = [NoBlake2b EXCEPT !.ctx = Blake2bGarbage(g)]
  /\ cha = NoChacha
  /\ arc = NoArc4

Blake2bInit(digestlen) ==
  /\ b2.op = "none"
  /\ b2' = [b2 EXCEPT !.ctx = blake2b_init(@, digestlen), !.op = "blake2b_init"]
  /\ UNCHANGED <<N, ctx, mem, call, keyed, origin, nblk, thr, probe, md, cha, arc>>

Blake2bInitKey(digestlen, keylen) ==
  /\ b2.op = "none"
  /\ b2' = [b2 EXCEPT !.ctx = blake2b_init_key(@, digestlen, Blake2bKey(keylen)),
                      !.key = Blake2bKey(keylen), !.op = "blake2b_init_key"]
  /\ UNCHANGED <<N, ctx, mem, call, keyed, origin, nblk, thr, probe, md, cha, arc>>

Blake2bUpdate(n) ==
  /\ b2.op \in {"blake2b_init", "blake2b_init_key", "blake2b_update"}
  /\ b2.nupd < MaxBlake2bUpdates
  /\ b2' = [b2 EXCEPT !.ctx = blake2b_update(@, Message(Len(b2.input), n)),
                      !.input = @ \o Message(Len(b2.input), n),
                      !.nupd = @ + 1, !.op = "blake2b_update"]
  /\ UNCHANGED <<N, ctx, mem, call, keyed, origin, nblk, thr, probe, md, cha, arc>>

Blake2bFinal ==
  /\ b2.op \in {"blake2b_init", "blake2b_init_key", "blake2b_update"}
  /\ \E r \in {blake2b_final(b2.ctx)} :
       b2' = [b2 EXCEPT !.ctx = r.ctx, !.digest = r.digest, !.op = "blake2b_final"]
  /\ UNCHANGED <<N, ctx, mem, call, keyed, origin, nblk, thr, probe, md, cha, arc>>

NextBlake2b ==
  \/ \E d \in DigestLens : Blake2bInit(d)
  \/ \E d \in DigestLens, k \in KeyLens : Blake2bInitKey(d, k)
  \/ \E n \in InputLens : Blake2bUpdate(n)
  \/ Blake2bFinal

SpecBlake2b == InitBlake2b /\ [][NextBlake2b]_vars
(***************************************************************************)
(* A caller of ChaCha: one key, one nonce with or without a counter, then  *)
(* calls of chacha_encrypt_bytes with inputs of any of a few lengths.      *)
(***************************************************************************)
\* the most calls of chacha_encrypt_bytes on one context
MaxChachaCalls == 2

\* what a struct chacha_ctx holds before the key setup
ChachaGarbage == [input |-> [i \in 0..15 |-> <<i, 200, 17 * i % 256, 9>>]]

\* the caller's keys: 16 or 32 bytes
ChachaKey(keybits) == [i \in 0..((keybits \div 8) - 1) |-> (13 * i + 1) % 256]

\* the caller's nonce
ChachaIv == [i \in 0..7 |-> 16 * i + 2]

\* the counters a caller passes: NULL, one whose low word is about to wrap,
\* and one whose 64 bits wrap with the second block
Counters ==
  { << >>,
    [i \in 0..7 |-> IF i < 4 THEN 255 ELSE 0],
    [i \in 0..7 |-> IF i = 0 THEN 254 ELSE 255] }

\* the lengths a caller passes
ChachaLens == {0, 1, 63, 64, 65, 128, 130}

\* the bytes the local buffer holds at entry
Junk(g) == [p \in 0..63 |-> (g * 101 + p) % 256]

InitChacha ==
  /\ N = 128
  /\ ctx = Garbage(N, 1)
  /\ mem = [p \in Bufs |-> IF p = 1 THEN FipsPlain ELSE OtherBlock]
  /\ call = NoCall
  /\ keyed = [op |-> "none", key |-> ZeroBlock, ctx |-> ctx]
  /\ origin = [p \in Bufs |-> NoOrigin]
  /\ nblk = 0
  /\ thr = NoThreads
  /\ probe = NoProbe
  /\ md = NoMd4
  /\ b2 = NoBlake2b
  /\ cha = [NoChacha EXCEPT !.ctx = ChachaGarbage]
  /\ arc = NoArc4

ChachaSetKey(keybits) ==
  /\ cha.op = "none"
  /\ cha' = [cha EXCEPT !.ctx = chacha_set_key(@, ChachaKey(keybits), keybits),
                        !.op = "chacha_set_key"]
  /\ UNCHANGED <<N, ctx, mem, call, keyed, origin, nblk, thr, probe, md, b2, arc>>

ChachaSetIv(counter) ==
  /\ cha.op = "chacha_set_key"
  /\ cha' = [cha EXCEPT !.ctx = chacha_set_iv(@, ChachaIv, counter),
                        !.op = "chacha_set_iv"]
  /\ UNCHANGED <<N, ctx, mem, call, keyed, origin, nblk, thr, probe, md, b2, arc>>

ChachaEncrypt(len, g) ==
  /\ cha.op \in {"chacha_set_iv", "chacha_encrypt_bytes"}
  /\ cha.ncalls < MaxChachaCalls
  /\ \E r \in {chacha_encrypt_bytes(cha.ctx, Message(cha.ncalls, len), cha.dest, Junk(g))} :
       cha' = [cha EXCEPT !.ctx = r.ctx, !.dest = r.dest, !.before = cha.ctx,
                          !.len = len, !.ncalls = @ + 1,
                          !.op = "chacha_encrypt_bytes"]
  /\ UNCHANGED <<N, ctx, mem, call, keyed, origin, nblk, thr, probe, md, b2, arc>>

NextChacha ==
  \/ \E k \in {128, 256} : ChachaSetKey(k)
  \/ \E c \in Counters : ChachaSetIv(c)
  \/ \E len \in ChachaLens, g \in 1..2 : ChachaEncrypt(len, g)

SpecChacha == InitChacha /\ [][NextChacha]_vars
(***************************************************************************)
(* A caller of ARC4: arc4_set_key with one of a few keys, then calls of    *)
(* arc4_crypt with inputs of a few lengths.                                *)
(***************************************************************************)
\* the most calls of arc4_crypt on one context
MaxArc4Calls == 2

\* what a struct arc4_ctx holds before arc4_set_key: indeterminate values
Arc4Garbage(g) ==
  [state |-> [i \in 0..255 |-> (g * i) % 7], i |-> 256 + 44 * g, j |-> 1000 * g]

\* the caller's keys: "Key", a key of one byte and a key of sixteen
Arc4Keys ==
  { <<75, 101, 121>>, <<200>>, [i \in 1..16 |-> (29 * i + 240) % 256] @@ << >> }

\* the lengths a caller passes to arc4_crypt
Arc4Lens == {0, 1, 4, 9}

\* the caller's input to arc4_crypt: "Plaintext"
Arc4Plain == <<80, 108, 97, 105, 110, 116, 101, 120, 116>>

InitArc4 ==
  /\ N = 128
  /\ ctx = Garbage(N, 1)
  /\ mem = [p \in Bufs |-> IF p = 1 THEN FipsPlain ELSE OtherBlock]
  /\ call = NoCall
  /\ keyed = [op |-> "none", key |-> ZeroBlock, ctx |-> ctx]
  /\ origin = [p \in Bufs |-> NoOrigin]
  /\ nblk = 0
  /\ thr = NoThreads
  /\ probe = NoProbe
  /\ md = NoMd4
  /\ b2 = NoBlake2b
  /\ cha = NoChacha
  /\ \E g \in 1..2 : arc = [NoArc4 EXCEPT !.ctx = Arc4Garbage(g)]

\* arc4_set_key entered: the first loop
Arc4SetKey(key) ==
  /\ arc.pc = "none"
  /\ arc' = [arc EXCEPT !.ctx.state = Arc4Fill, !.l = Arc4Locals, !.key = key,
                        !.pc = "arc4_set_key"]
  /\ UNCHANGED <<N, ctx, mem, call, keyed, origin, nblk, thr, probe, md, b2, cha>>

\* one turn of the second loop; after the last, ctx->i = ctx->j = 0 and the
\* return
Arc4KeyStep ==
  /\ arc.pc = "arc4_set_key"
  /\ \E r \in {Arc4KeyTurn(arc.ctx.state, arc.l, arc.key)} :
       arc' = IF r.l.i < 256
              THEN [arc EXCEPT !.ctx.state = r.state, !.l = r.l]
              ELSE [arc EXCEPT !.ctx = [state |-> r.state, i |-> 0, j |-> 0],
                               !.l = r.l, !.keyed = TRUE, !.pc = "idle"]
  /\ UNCHANGED <<N, ctx, mem, call, keyed, origin, nblk, thr, probe, md, b2, cha>>

\* arc4_crypt entered with len bytes: with len = 0 it returns at once
Arc4Crypt(len) ==
  /\ arc.pc = "idle"
  /\ arc.ncalls < MaxArc4Calls
  /\ arc' = [arc EXCEPT !.n = 0, !.src = SubSeq(Arc4Plain, 1, len),
                        !.ncalls = @ + 1,
                        !.pc = IF len = 0 THEN "idle" ELSE "arc4_crypt"]
  /\ UNCHANGED <<N, ctx, mem, call, keyed, origin, nblk, thr, probe, md, b2, cha>>

\* one turn of the loop of arc4_crypt
Arc4CryptStep ==
  /\ arc.pc = "arc4_crypt"
  /\ \E c \in {Arc4Mix(Arc4Advance(arc.ctx))} :
       arc' = [arc EXCEPT !.ctx = c,
                          !.dest = Arc4Out(c, arc.src, @, arc.n),
                          !.n = @ + 1,
                          !.pc = IF arc.n + 1 < Len(arc.src) THEN "arc4_crypt"
                                 ELSE "idle"]
  /\ UNCHANGED <<N, ctx, mem, call, keyed, origin, nblk, thr, probe, md, b2, cha>>

NextArc4 ==
  \/ \E key \in Arc4Keys : Arc4SetKey(key)
  \/ Arc4KeyStep
  \/ \E len \in Arc4Lens : Arc4Crypt(len)
  \/ Arc4CryptStep

SpecArc4 == InitArc4 /\ [][NextArc4]_vars

(***************************************************************************)
(* Properties.                                                             *)
(***************************************************************************)
Byte == 0..255

\* the encryption schedule of key: what aesN_set_encrypt_key leaves in ek
Schedule(n, key) == set_encrypt_key(n, Garbage(n, 1), key).ek

\* group g of a round-key array: its words 4g .. 4g + 3
Group(rk, g) == <<rk[4 * g], rk[4 * g + 1], rk[4 * g + 2], rk[4 * g + 3]>>

\* the schedule w with the order of its groups reversed
Reversed(w, nr) == [i \in 0..(4 * nr + 3) |-> w[4 * (nr - (i \div 4)) + (i % 4)]]

\* the transform of the schedule w for the equivalent inverse cipher: groups
\* in reverse order, InvMixColumns on every word of groups 1 .. nr - 1
Section43(w, nr) ==
  [i \in 0..(4 * nr + 3) |->
     IF (i \div 4) \in {0, nr} THEN Reversed(w, nr)[i]
     ELSE InvMixWord(Reversed(w, nr)[i])]

\* C1: round trip.  A block decrypted on a context prepared by
\* aesN_set_decrypt_key(k), when it is the output of aesN_encrypt of a block b
\* on a context prepared by aesN_set_encrypt_key(k), is b again.
C1_RoundTrip ==
  (call.op = "decrypt" /\ call.rt.valid) => mem[call.dest] = call.rt.plain

\* FIPS-197 appendix C ciphertexts
FipsCipher(n) ==
  IF n = 128
  THEN <<105, 196, 224, 216, 106, 123, 4, 48, 216, 205, 183, 128, 112, 180, 197, 90>>
  ELSE IF n = 192
  THEN <<221, 169, 124, 164, 134, 76, 223, 224, 110, 175, 112, 160, 236, 13, 113, 145>>
  ELSE <<142, 162, 183, 202, 81, 103, 69, 191, 234, 252, 73, 144, 75, 73, 96, 137>>

\* an encryption of the appendix C plaintext under the appendix C key
FipsCall ==
  /\ call.op = "encrypt"
  /\ keyed.op = "set_encrypt_key"
  /\ keyed.key = FipsKey(N)
  /\ call.input = FipsPlain

\* C2: known vectors.  aesN_set_encrypt_key with the key 00 01 02 .. followed
\* by aesN_encrypt of 00 11 22 .. ff leaves the FIPS-197 ciphertext of the
\* variant in dest: 69c4e0d8.., dda97ca4.., 8ea2b7ca...
C2_KnownVectors ==
  FipsCall => \A i \in 0..15 : mem[call.dest][i] = FipsCipher(N)[i + 1]

C2_Witness == FipsCall /\ N = 192 /\ mem[call.dest][0] = 221

\* C3: after aesN_set_decrypt_key(ctx, k) the array dk is the transform of
\* the encryption schedule of k: groups reversed, InvMixColumns on the words
\* of groups 1 .. Nr - 1, groups 0 and Nr unchanged.
C3_DecryptSchedule ==
  call.op = "set_decrypt_key" =>
    ctx.dk = Section43(Schedule(N, call.key), Rounds(N))

\* C4: key-schedule determinism.  Whatever the context held before the call,
\* aesN_set_encrypt_key with key k leaves the ek that a call with k on any
\* other previous contents leaves.
C4_Determinism ==
  call.op = "set_encrypt_key" =>
    \A g \in 1..2 : ctx.ek = set_encrypt_key(N, Garbage(N, g), call.key).ek

\* the call re-keys a context that has encrypted under another key
C4_Witness ==
  /\ call.op = "set_encrypt_key"
  /\ origin[2].valid
  /\ origin[2].key # call.key

\* the key of the model that is not key
Another(n, key) == IF key = FipsKey(n) THEN OtherKey(n) ELSE FipsKey(n)

\* C5: schedule length.  The schedule has 4 * (Nr + 1) = 44, 52, 60 words;
\* aesN_set_encrypt_key leaves a value that depends on the key at every index
\* 0 .. 4 * (Nr + 1) - 1 of ek and stores to no index of ek outside that range.
C5_ScheduleLength ==
  call.op = "set_encrypt_key" =>
    /\ Words(N) = 4 * (Rounds(N) + 1)
    /\ <<Words(128), Words(192), Words(256)>> = <<44, 52, 60>>
    /\ DOMAIN ctx.ek = 0..(Words(N) - 1)
    /\ \A i \in 0..(Words(N) - 1) :
         ctx.ek[i] # Schedule(N, Another(N, call.key))[i]

C5_Witness ==
  call.op = "set_encrypt_key" /\ N = 192 /\ ctx.ek[51] # Zero32

\* the output of the last block operation when it runs on the context as the
\* key setup left it, in memory that holds nothing but its input block
Afresh ==
  LET m == [p \in Bufs |-> call.input]
  IN  IF call.op = "encrypt"
      THEN encrypt(N, keyed.ctx, m, call.src, call.dest).mem[call.dest]
      ELSE decrypt(N, keyed.ctx, m, call.src, call.dest).mem[call.dest]

\* C6: block operations never modify ek or dk: after any block operations the
\* context is as the last key setup left it, and the output of a block
\* operation is that of the same operation with no operation before it.
C6_ContextImmutable ==
  /\ keyed.op # "none" => ctx = keyed.ctx
  /\ call.op \in {"encrypt", "decrypt"} => mem[call.dest] = Afresh

\* a second block operation, after an encryption that changed its input
C6_Witness ==
  /\ nblk >= 2
  /\ call.op \in {"encrypt", "decrypt"}
  /\ call.input \notin {FipsPlain, OtherBlock}
  /\ ctx = keyed.ctx

\* the output of the call of thread t when it runs alone
Alone(t) ==
  IF thr.op[t] = "encrypt"
  THEN encrypt(N, ctx, ConcMem, Src(t), Dest(t)).mem[Dest(t)]
  ELSE decrypt(N, ctx, ConcMem, Src(t), Dest(t)).mem[Dest(t)]

Finished(t) == thr.pc[t] = Rounds(N) + 1

\* C7: concurrent block operations on one keyed context.  In every
\* interleaving of the rounds of the calls, a call that has finished has put
\* in its dest the output it produces when it runs alone.
C7_ConcurrentSafe ==
  \A t \in Threads : Finished(t) => mem[Dest(t)] = Alone(t)

\* thread 1 has finished while thread 2 is between two rounds
C7_Witness ==
  /\ Finished(1)
  /\ thr.pc[2] \in 2..(Rounds(N) - 1)
  /\ thr.op[1] # thr.op[2]

IsWord(w) == DOMAIN w = 1..4 /\ \A j \in 1..4 : w[j] \in Byte

\* C8: totality.  Every call completes; every byte that indexes a table is
\* in 0 .. 255 and the tables have 256 entries; no key setup stores outside
\* 0 .. 4 * (Nr + 1) - 1 and every round-key index of a block operation is in
\* that range.
C8_Totality ==
  /\ Words(N) = 4 * (Rounds(N) + 1)
  /\ \A tbl \in {te0, te1, te2, te3, td0, td1, td2, td3} :
       DOMAIN tbl = 1..256
  /\ DOMAIN si = 1..256
  /\ DOMAIN ctx.ek = 0..(Words(N) - 1)
  /\ DOMAIN ctx.dk = 0..(Words(N) - 1)
  /\ \A i \in 0..(Words(N) - 1) : IsWord(ctx.ek[i]) /\ IsWord(ctx.dk[i])
  /\ \A p \in Bufs : \A i \in 0..(AES128_BLOCK_SIZE - 1) : mem[p][i] \in Byte
  /\ call.op \in {"encrypt", "decrypt"} =>
       /\ call.idx # {}
       /\ call.idx \subseteq 0..(Words(N) - 1)

C8_Witness ==
  /\ N = 256
  /\ call.op = "decrypt"
  /\ keyed.op = "set_decrypt_key"
  /\ 59 \in call.idx

\* C9: boundary exclusion.  After aesN_set_decrypt_key, groups 0 and Nr of dk
\* are groups 0 and Nr of the reversed encryption schedule, byte for byte,
\* and every group 1 .. Nr - 1 of dk differs from that group of the reversed
\* schedule.
C9_BoundaryExclusion ==
  call.op = "set_decrypt_key" =>
    LET r == Reversed(Schedule(N, call.key), Rounds(N))
    IN  /\ Group(ctx.dk, 0) = Group(r, 0)
        /\ Group(ctx.dk, Rounds(N)) = Group(r, Rounds(N))
        /\ \A g \in 1..(Rounds(N) - 1) : Group(ctx.dk, g) # Group(r, g)

\* C10: table self-consistency.  For every byte b and lane n, the
\* InvMixColumns construction of the key setup applied to te_n[b] is the
\* word with S[b] in lane n and zero in the other lanes, and si[S[b]] = b.
C10_TableConsistency ==
  /\ probe.w = ShlByte(SBox(probe.b), 24 - 8 * probe.n)
  /\ probe.s = probe.b

C10_Witness ==
  /\ probe.b = 255
  /\ probe.n = 3
  /\ probe.w = <<0, 0, 0, SBox(255)>>

\* a run of run_md4_testcase: md4_init, one md4_update over the whole
\* message, md4_final
TestRun ==
  /\ md.op = "md4_final"
  /\ md.nupd = 1
  /\ md.pos = Len(TestMessage[md.m])

\* C11: for each of the seven RFC 1320 test messages, md4_init, one
\* md4_update over the whole message and md4_final write the listed digest.
C11_Md4Vectors ==
  TestRun => \A i \in 0..(MD4_DIGEST_SIZE - 1) :
               md.digest[i] = TestDigest[md.m][i + 1]

C11_Witness == TestRun /\ md.m = 7 /\ md.pos = 80 /\ md.digest[0] = 227

xtime(b) == ByteXor((2 * b) % 256, IF b >= 128 THEN 27 ELSE 0)

RECURSIVE GMul(_, _)
GMul(a, b) ==
  IF b = 0 THEN 0
  ELSE ByteXor(IF b % 2 = 1 THEN a ELSE 0, GMul(xtime(a), b \div 2))

\* InvMixColumns on one column: the matrix 0e 0b 0d 09
InvMixColumn(w) ==
  [r \in 1..4 |->
     ByteXor(ByteXor(GMul(w[r], 14), GMul(w[(r % 4) + 1], 11)),
             ByteXor(GMul(w[((r + 1) % 4) + 1], 13),
                     GMul(w[((r + 2) % 4) + 1], 9)))] @@ << >>

\* the array for the equivalent inverse cipher: the groups of w in reverse
\* order, InvMixColumns on the words of groups 1 .. nr - 1
InverseSchedule(w, nr) ==
  [i \in 0..(4 * nr + 3) |->
     IF (i \div 4) \in {0, nr} THEN w[4 * (nr - (i \div 4)) + (i % 4)]
     ELSE InvMixColumn(w[4 * (nr - (i \div 4)) + (i % 4)])]

\* a decryption of the output of an encryption of a block b, on a context
\* whose dk is the array derived from its ek for the equivalent inverse cipher
EngineRoundTrip ==
  /\ call.op = "decrypt"
  /\ call.rt.valid
  /\ ctx.dk = InverseSchedule(ctx.ek, Rounds(N))

\* C13: the decryption engine inverts the encryption engine.  For every
\* array w of 4 (Nr + 1) words and every block b, the rounds of aesN_decrypt
\* with dk the section 4.3 transform of w, run on the output of the rounds of
\* aesN_encrypt with ek = w and input b, return b.
C13_EngineInverts == EngineRoundTrip => mem[call.dest] = call.rt.plain

C13_Witness ==
  /\ EngineRoundTrip
  /\ N = 256
  /\ call.rt.plain = AnyBlock(3)
  /\ call.input # AnyBlock(3)
  /\ mem[call.dest] = AnyBlock(3)

\* the S-box: the inverse in GF(2^8), then the affine transformation
GInv(b) == IF b = 0 THEN 0 ELSE CHOOSE x \in 1..255 : GMul(b, x) = 1

Rotl8(b, n) == ((b * (2 ^ n)) % 256) + (b \div (2 ^ (8 - n)))

Affine(b) ==
  ByteXor(ByteXor(ByteXor(b, Rotl8(b, 1)), ByteXor(Rotl8(b, 2), Rotl8(b, 3))),
          ByteXor(Rotl8(b, 4), 99))

FipsSBox == [b \in 0..255 |-> Affine(GInv(b))] @@ << >>

\* the state: column c is component c + 1, its row r is byte r + 1
InputState(in) ==
  [c \in 1..4 |-> [r \in 1..4 |-> in[4 * (c - 1) + (r - 1)]] @@ << >>] @@ << >>

OutputBlock(s) == [i \in 0..15 |-> s[(i \div 4) + 1][(i % 4) + 1]]

SubBytes(s) ==
  [c \in 1..4 |-> [r \in 1..4 |-> FipsSBox[s[c][r]]] @@ << >>] @@ << >>

\* row r is shifted left by r columns
ShiftRows(s) ==
  [c \in 1..4 |-> [r \in 1..4 |-> s[((c + r - 2) % 4) + 1][r]] @@ << >>] @@ << >>

\* MixColumns on one column: the matrix 02 03 01 01
MixColumn(w) ==
  [r \in 1..4 |->
     ByteXor(ByteXor(xtime(w[r]),
                     ByteXor(xtime(w[(r % 4) + 1]), w[(r % 4) + 1])),
             ByteXor(w[((r + 1) % 4) + 1], w[((r + 2) % 4) + 1]))] @@ << >>

MixColumns(s) == [c \in 1..4 |-> MixColumn(s[c])] @@ << >>

AddRoundKey(s, w, g) ==
  [c \in 1..4 |-> Xor32(s[c], w[4 * g + c - 1])] @@ << >>

FullRound(s, w, g) == AddRoundKey(MixColumns(ShiftRows(SubBytes(s))), w, g)

RECURSIVE FullRounds(_, _, _, _)
FullRounds(s, w, g, nr) ==
  IF g = nr THEN s ELSE After(s, FullRounds(FullRound(s, w, g), w, g + 1, nr))

\* Cipher of FIPS-197 section 5.1 with the key schedule w
Cipher(in, w, nr) ==
  OutputBlock(AddRoundKey(ShiftRows(SubBytes(
    FullRounds(AddRoundKey(InputState(in), w, 0), w, 1, nr))), w, nr))

\* the state the block in stands for
BlockState(in) ==
  <<buff_get_be32(in, 0), buff_get_be32(in, 4), buff_get_be32(in, 8),
    buff_get_be32(in, 12)>>

\* C14: for every schedule ek and block b, aesN_encrypt is the byte-level
\* cipher of FIPS-197 on the state packed by columns into big-endian words:
\* AddRoundKey with group 0, Nr - 1 rounds of SubBytes, ShiftRows, MixColumns,
\* AddRoundKey, then SubBytes, ShiftRows, AddRoundKey with group Nr; and each
\* round of four table reads te0 ^ te1 ^ te2 ^ te3 is SubBytes, ShiftRows
\* and MixColumns composed, then AddRoundKey.
C14_FipsCipher ==
  call.op = "encrypt" =>
    /\ mem[call.dest] = Cipher(call.input, ctx.ek, Rounds(N))
    /\ \A r \in 1..(Rounds(N) - 1) :
         /\ EncRound(ctx.ek, r, BlockState(call.input))
              = FullRound(InputState(call.input), ctx.ek, r)
         /\ EncRound(ctx.ek, r, BlockState(mem[call.dest]))
              = FullRound(InputState(mem[call.dest]), ctx.ek, r)

C14_Witness ==
  /\ call.op = "encrypt"
  /\ N = 192
  /\ ctx.ek = AnySchedule(192, 4)
  /\ call.input = AnyBlock(2)
  /\ mem[call.dest] = Cipher(AnyBlock(2), AnySchedule(192, 4), 12)
  /\ mem[call.dest] # call.input

\* KeyExpansion of FIPS-197 section 5.2
RotWord(w) == <<w[2], w[3], w[4], w[1]>>

FipsSubWord(w) == <<FipsSBox[w[1]], FipsSBox[w[2]], FipsSBox[w[3]], FipsSBox[w[4]]>>

Rcon == <<1, 2, 4, 8, 16, 32, 64, 128, 27, 54>>

\* Rcon[j] in the top byte of a word
RconWord(j) == <<Rcon[j], 0, 0, 0>>

Temp(w, i, nk) ==
  IF i % nk = 0
  THEN Xor32(FipsSubWord(RotWord(w[i - 1])), RconWord(i \div nk))
  ELSE IF nk = 8 /\ i % nk = 4 THEN FipsSubWord(w[i - 1])
  ELSE w[i - 1]

\* words i .. end - 1 appended to the words w[0 .. i - 1]
RECURSIVE ExpandTo(_, _, _, _)
ExpandTo(w, i, end, nk) ==
  IF i >= end THEN w
  ELSE After(w, ExpandTo(w @@ (i :> Xor32(w[i - nk], Temp(w, i, nk))),
                         i + 1, end, nk))

KeyWords(key, nk) ==
  [i \in 0..(nk - 1) |->
     <<key[4 * i], key[4 * i + 1], key[4 * i + 2], key[4 * i + 3]>>]

\* the n words of the schedule, sixteen at a time
KeyExpansion(key, nk, n) ==
  ExpandTo(ExpandTo(ExpandTo(ExpandTo(KeyWords(key, nk), nk, 16, nk),
                             16, 32, nk), 32, 44, nk), 44, n, nk)

\* C15: for AES-128 (Nk = 4, 44 words) and AES-192 (Nk = 6, 52 words), ek
\* after aesN_set_encrypt_key(k) is the FIPS-197 expansion of k: the first Nk
\* words are the big-endian words of k, and w[i] = w[i - Nk] xor temp with
\* temp = SubWord(RotWord(w[i - 1])) xor Rcon[i / Nk] in the top byte when
\* i mod Nk = 0 and temp = w[i - 1] otherwise; Rcon = 01 02 04 08 10 20 40 80
\* 1b 36.
C15_KeyExpansion ==
  (call.op = "set_encrypt_key" /\ N \in {128, 192}) =>
    /\ KeySize(N) \div 4 = (IF N = 128 THEN 4 ELSE 6)
    /\ Words(N) = (IF N = 128 THEN 44 ELSE 52)
    /\ ctx.ek = KeyExpansion(call.key, KeySize(N) \div 4, Words(N))
    /\ \A i \in (KeySize(N) \div 4)..(Words(N) - 1) :
         ctx.ek[i] = Xor32(ctx.ek[i - (KeySize(N) \div 4)],
                           IF i % (KeySize(N) \div 4) = 0
                           THEN Xor32(FipsSubWord(RotWord(ctx.ek[i - 1])),
                                      RconWord(i \div (KeySize(N) \div 4)))
                           ELSE ctx.ek[i - 1])

C15_Witness ==
  /\ call.op = "set_encrypt_key"
  /\ N = 192
  /\ call.key = OtherKey(192)
  /\ ctx.ek[48] = Xor32(ctx.ek[42],
                        Xor32(FipsSubWord(RotWord(ctx.ek[47])), <<128, 0, 0, 0>>))

\* C16: for AES-256 (Nk = 8, 60 words), ek after aes256_set_encrypt_key(k)
\* is the FIPS-197 expansion of k, where for every i in 8 .. 59 with
\* i mod 8 = 4 the word is w[i - 8] xor SubWord(w[i - 1]), with no rotation
\* and no round constant, and with i mod 8 = 0 it is
\* w[i - 8] xor SubWord(RotWord(w[i - 1])) xor Rcon[i / 8].
C16_KeyExpansion256 ==
  (call.op = "set_encrypt_key" /\ N = 256) =>
    /\ Words(N) = 60
    /\ ctx.ek = KeyExpansion(call.key, 8, 60)
    /\ \A i \in 8..59 :
         /\ i % 8 = 4 =>
              ctx.ek[i] = Xor32(ctx.ek[i - 8], FipsSubWord(ctx.ek[i - 1]))
         /\ i % 8 = 0 =>
              ctx.ek[i] = Xor32(Xor32(ctx.ek[i - 8],
                                      FipsSubWord(RotWord(ctx.ek[i - 1]))),
                                RconWord(i \div 8))

C16_Witness ==
  /\ call.op = "set_encrypt_key"
  /\ N = 256
  /\ call.key = OtherKey(256)
  /\ ctx.ek[52] = Xor32(ctx.ek[44], FipsSubWord(ctx.ek[51]))
  /\ ctx.ek[52] # Xor32(ctx.ek[44], FipsSubWord(RotWord(ctx.ek[51])))

\* Nr of the variant, as the numbers 10, 12, 14
Nr == IF N = 128 THEN 10 ELSE IF N = 192 THEN 12 ELSE 14

\* step k of a call of the variant: the initial key addition, a full table
\* round, or the final round, with group k - 1
StepOf(k) ==
  [kind |-> IF k = 1 THEN "first" ELSE IF k = Nr + 1 THEN "last" ELSE "round",
   groups |-> {k - 1}]

\* the steps a call has taken are the first steps of the sequence of a call
InOrder(t) ==
  /\ thr.pc[t] = Len(thr.steps[t])
  /\ Len(thr.steps[t]) <= Nr + 1
  /\ \A k \in 1..Len(thr.steps[t]) : thr.steps[t][k] = StepOf(k)

\* a call takes one step at a time
OneStep(t) == thr'.pc[t] \in {thr.pc[t], thr.pc[t] + 1}

Stopped(t) == thr.pc[t] = Nr + 1 /\ Len(thr.steps[t]) = Nr + 1

\* C17: each aesN_encrypt and aesN_decrypt call passes through exactly
\* Nr + 1 round steps (Nr = 10, 12, 14) and then stops: one initial key
\* addition with group 0, Nr - 1 full table rounds with groups 1 .. Nr - 1 in
\* increasing order, one final round with group Nr; each round-key group is
\* used exactly once.
C17_RoundSteps ==
  /\ [](\A t \in Threads : InOrder(t))
  /\ [][\A t \in Threads : OneStep(t)]_vars
  /\ <>[](\A t \in Threads : Stopped(t))

C17_Witness ==
  /\ N = 256
  /\ thr.op = <<"encrypt", "decrypt">>
  /\ \A t \in Threads : Stopped(t) /\ thr.steps[t][15] = StepOf(15)

\* after aesN_set_decrypt_key(ctx, k), ek is the array of aesN_set_encrypt_key(k)
EkDerived == ctx.ek = Schedule(N, keyed.key)

\* dk carries the key: another key leaves another array
DkDerived ==
  ctx.dk # set_decrypt_key(N, Garbage(N, 1), Another(N, keyed.key)).dk

\* an encryption on the context gives what it gives after aesN_set_encrypt_key(k)
EncryptsUnderKey ==
  call.op = "encrypt" =>
    mem[call.dest] =
      encrypt(N, set_encrypt_key(N, Garbage(N, 2), keyed.key),
              [p \in Bufs |-> call.input], call.src, call.dest).mem[call.dest]

\* C18: after aesN_set_decrypt_key(ctx, k), ctx->ek is the array that
\* aesN_set_encrypt_key(k) produces, both arrays of the context are derived
\* from the root key k, and aesN_encrypt on that context encrypts under k.
C18_BothDerived ==
  keyed.op = "set_decrypt_key" => (EkDerived /\ DkDerived /\ EncryptsUnderKey)

\* what the last key setup leaves on a context that held the words g
KeyedFrom(g) ==
  IF call.op = "set_encrypt_key"
  THEN set_encrypt_key(N, Garbage(N, g), call.key)
  ELSE set_decrypt_key(N, Garbage(N, g), call.key)

\* C19: re-keying leaves no residue.  Whatever the earlier keys and block
\* operations on a context, after aesN_set_encrypt_key(ctx, k2) the whole
\* context, ek and dk, is the same, and likewise after
\* aesN_set_decrypt_key(ctx, k2): no round-key word of an earlier key survives.
C19_NoResidue ==
  call.op \in {"set_encrypt_key", "set_decrypt_key"} =>
    \A g \in 1..2 : ctx = KeyedFrom(g)

\* aesN_set_decrypt_key on a context that has encrypted under another key
C19_Witness ==
  /\ call.op = "set_decrypt_key"
  /\ nblk >= 1
  /\ origin[2].valid
  /\ origin[2].key # call.key
  /\ ctx.ek = Schedule(N, call.key)

\* word i of a decryption round in which lane j = 0 .. 3 takes byte j of input
\* word i + off[j + 1] as its table argument
LaneWord(dk, r, x, i, off) ==
  Xor32(Xor32(Xor32(Xor32(Tab(td0, ShrByte(W(x, i, off[1]), 24)),
                          Tab(td1, ShrByte(W(x, i, off[2]), 16))),
                    Tab(td2, ShrByte(W(x, i, off[3]), 8))),
              Tab(td3, ShrByte(W(x, i, off[4]), 0))),
        Load(dk, 4 * r + i))

LaneRound(dk, r, x, off) ==
  << LaneWord(dk, r, x, 0, off), LaneWord(dk, r, x, 1, off),
     LaneWord(dk, r, x, 2, off), LaneWord(dk, r, x, 3, off) >>

\* the same for the last round, whose table in every lane is si
LaneLastWord(dk, r, x, i, off) ==
  Xor32(<< Tab(si, ShrByte(W(x, i, off[1]), 24)),
           Tab(si, ShrByte(W(x, i, off[2]), 16)),
           Tab(si, ShrByte(W(x, i, off[3]), 8)),
           Tab(si, ShrByte(W(x, i, off[4]), 0)) >>,
        Load(dk, 4 * r + i))

LaneLast(dk, r, x, off) ==
  << LaneLastWord(dk, r, x, 0, off), LaneLastWord(dk, r, x, 1, off),
     LaneLastWord(dk, r, x, 2, off), LaneLastWord(dk, r, x, 3, off) >>

\* thread t takes a round of a decryption
DecryptionRound(t) ==
  /\ thr.op[t] = "decrypt"
  /\ thr.pc[t] \in 1..Rounds(N)
  /\ thr'.pc[t] = thr.pc[t] + 1

\* every decryption round reads its lanes from the words i + off
LanesFrom(off) ==
  \A t \in Threads :
    DecryptionRound(t) =>
      thr'.x[t] = IF thr.pc[t] < Rounds(N)
                  THEN LaneRound(ctx.dk, thr.pc[t], thr.x[t], off)
                  ELSE LaneLast(ctx.dk, thr.pc[t], thr.x[t], off)

\* C20 as stated: in every decryption round, for each output word position
\* i in 0 .. 3, the table argument of each lane is taken from input word i,
\* with no word offset.
C20_NoOffset == [][LanesFrom(<<0, 0, 0, 0>>)]_vars

\* C20: in every decryption round, for each output word position i in
\* 0 .. 3, lane j takes its table argument from input word (i - j) mod 4:
\* words i, i + 3, i + 2, i + 1 for lanes 0 .. 3, the encryption pattern
\* i, i + 1, i + 2, i + 3 inverted.
C20_InverseShift == [][LanesFrom(<<0, 3, 2, 1>>)]_vars

\* a decryption has taken its round 1, and reading every lane from word i
\* would have given another state
C20_Witness ==
  /\ thr.op[1] = "decrypt"
  /\ thr.pc[1] = 2
  /\ thr.x[1] = LaneRound(ctx.dk, 1, AddFirstKey(ctx.dk, mem[Src(1)]),
                          <<0, 3, 2, 1>>)
  /\ thr.x[1] # LaneRound(ctx.dk, 1, AddFirstKey(ctx.dk, mem[Src(1)]),
                          <<0, 0, 0, 0>>)

\* a word rotated right by 8 * n bits
RotRight(w, n) == [k \in 1..4 |-> w[((k + 3 - n) % 4) + 1]] @@ << >>

\* (02 * s, s, s, 03 * s) as a big-endian word
MixWord(s) == <<xtime(s), s, s, ByteXor(xtime(s), s)>>

\* (0e * t, 09 * t, 0d * t, 0b * t) as a big-endian word
InvMixedWord(t) == <<GMul(t, 14), GMul(t, 9), GMul(t, 13), GMul(t, 11)>>

\* C21: for every byte b, with s = S[b] and multiplication in GF(2^8) modulo
\* x^8 + x^4 + x^3 + x + 1, te0[b] is the big-endian word (02 s, s, s, 03 s)
\* and te1[b], te2[b], te3[b] are te0[b] rotated right by 8, 16, 24 bits; with
\* t = si[b], td0[b] is (0e t, 09 t, 0d t, 0b t) and td1[b], td2[b], td3[b]
\* are td0[b] rotated right by 8, 16, 24 bits.
C21_TableWords ==
  /\ Tab(Te(probe.n), probe.b) = RotRight(MixWord(SBox(probe.b)), probe.n)
  /\ Tab(Te(probe.n), probe.b) = RotRight(Tab(te0, probe.b), probe.n)
  /\ Tab(Td(probe.n), probe.b) = RotRight(InvMixedWord(Tab(si, probe.b)), probe.n)
  /\ Tab(Td(probe.n), probe.b) = RotRight(Tab(td0, probe.b), probe.n)

C21_Witness ==
  /\ probe.b = 83
  /\ probe.n = 3
  /\ Tab(te0, 83) = <<193, 237, 237, 44>>
  /\ Tab(te3, 83) = <<237, 237, 44, 193>>

\* the bytes the S-box of the tables and the table si take
SBoxRange == {SBox(b) : b \in Byte}

SiRange == {Tab(si, b) : b \in Byte}

\* C22: the S-box of the tables, S[b] = te1[b] & 0xff, and the inverse S-box
\* si are permutations of 0 .. 255 and inverses of each other: si[S[b]] = b
\* and S[si[b]] = b for every byte b.
C22_Permutations ==
  /\ SBoxRange = Byte
  /\ SiRange = Byte
  /\ Tab(si, SBox(probe.b)) = probe.b
  /\ SBox(Tab(si, probe.b)) = probe.b

C22_Witness ==
  /\ probe.b = 99
  /\ Tab(si, 99) = 0
  /\ SBox(0) = 99
  /\ probe.s = 99

\* C23: for every byte b, the S-box of the code, te1[b] & 0xff, is the
\* affine transformation of FIPS-197 applied to the inverse of b in GF(2^8)
\* modulo x^8 + x^4 + x^3 + x + 1, the inverse of 0 being 0, so S[0] = 0x63.
C23_SBoxFips ==
  /\ SBox(probe.b) = Affine(GInv(probe.b))
  /\ SBox(0) = 99
  /\ GMul(probe.b, GInv(probe.b)) = (IF probe.b = 0 THEN 0 ELSE 1)

C23_Witness ==
  /\ probe.b = 83
  /\ GInv(83) = 202
  /\ SBox(83) = 237

\* the caller's memory with the input of the last call in buffer 1 and other
\* bytes in buffer 2
Apart == [p \in Bufs |-> IF p = 1 THEN call.input ELSE ZeroBlock]

\* the output of the last block operation run from buffer 1 to buffer 2
DisjointOutput ==
  IF call.op = "encrypt"
  THEN encrypt(N, ctx, Apart, 1, 2).mem[2]
  ELSE decrypt(N, ctx, Apart, 1, 2).mem[2]

\* C24: aesN_encrypt and aesN_decrypt read the 16 bytes of src before they
\* write to dest, so a call with dest == src leaves in dest the 16 bytes
\* that a call with disjoint buffers leaves.
C24_InPlace ==
  call.op \in {"encrypt", "decrypt"} =>
    /\ mem[call.dest] = DisjointOutput
    /\ call.src # call.dest => mem[call.src] = call.input

\* an encryption in place, which has overwritten its input
C24_Witness ==
  /\ call.op = "encrypt"
  /\ call.src = call.dest
  /\ mem[call.dest] # call.input
  /\ mem[call.dest] = DisjointOutput

\* the part of the message passed to md4_update so far
Passed == SubSeq(TestMessage[md.m], 1, md.pos)

\* md4_init and a single md4_update over that part
Single == md4_update(md4_init(Md4Garbage(1)), Passed)

\* C25: streaming equivalence.  For every message and every split of it into
\* consecutive chunks, empty chunks included, md4_init and one md4_update
\* per chunk leave the state words, the count and the buffered bytes
\* buffer[0 .. (len mod 64) - 1] that md4_init and a single md4_update over
\* the message leave, so md4_final returns the same digest.
C25_Streaming ==
  /\ md.op \in {"md4_init", "md4_update"} =>
       /\ md.ctx.state = Single.state
       /\ md.ctx.count = Single.count
       /\ md.ctx.count = 8 * md.pos
       /\ \A i \in 0..((md.pos % MD4_BLOCK_SIZE) - 1) :
            md.ctx.buffer[i] = Single.buffer[i]
  /\ md.op = "md4_final" => md.digest = md4_final(NoDigest, Single).digest

\* 80 bytes passed as 30 bytes, no bytes and 50 bytes
C25_Witness ==
  /\ md.op = "md4_final"
  /\ md.m = 7
  /\ md.chunks = <<30, 0, 50>>
  /\ md.digest[0] = 227

\* the last block md4_final has passed to md4_transform
LastBlock == md.blocks[Len(md.blocks)]

\* the first block md4_final has passed to md4_transform
FirstBlock == md.blocks[1]

\* byte k of the 64-bit little-endian form of n, for n below 2^31
Le64Byte(n, k) == IF k < 4 THEN (n \div (256 ^ k)) % 256 ELSE 0

\* the state after md4_transform on each of the blocks in turn
Transformed(state, blocks) ==
  IF Len(blocks) = 1 THEN md4_transform(state, blocks[1])
  ELSE md4_transform(md4_transform(state, blocks[1]), blocks[2])

\* C26: for a message of len bytes, md4_final pads with 0x80, zero bytes and
\* the 64-bit little-endian bit count 8 * len in bytes 56 .. 63 of the last
\* block, writes only buffer indices 0 .. 63, and calls md4_transform once
\* when len mod 64 <= 55 and twice when len mod 64 is in 56 .. 63.
C26_Padding ==
  md.op = "md4_final" =>
    /\ Len(md.blocks) = (IF md.pos % 64 <= 55 THEN 1 ELSE 2)
    /\ \A k \in 1..Len(md.blocks) : DOMAIN md.blocks[k] = 0..63
    /\ \A i \in 0..((md.pos % 64) - 1) :
         FirstBlock[i] = TestMessage[md.m][md.pos - (md.pos % 64) + i + 1]
    /\ FirstBlock[md.pos % 64] = 128
    /\ \A i \in ((md.pos % 64) + 1)..(IF Len(md.blocks) = 1 THEN 55 ELSE 63) :
         FirstBlock[i] = 0
    /\ Len(md.blocks) = 2 => \A i \in 0..55 : LastBlock[i] = 0
    /\ \A k \in 0..7 : LastBlock[56 + k] = Le64Byte(8 * md.pos, k)
    /\ md.digest = Md4Digest(NoDigest, Transformed(Single.state, md.blocks))

\* 55 bytes: 0x80 is byte 55 and the count follows in the same block
C26_Witness ==
  /\ md.op = "md4_final"
  /\ md.pos = 55
  /\ Len(md.blocks) = 1
  /\ LastBlock[55] = 128
  /\ LastBlock[56] = 184
  /\ LastBlock[57] = 1

\* 56 bytes: no room for the count, two blocks
C26_TwoBlocks ==
  /\ md.op = "md4_final"
  /\ md.pos = 56
  /\ Len(md.blocks) = 2
  /\ FirstBlock[56] = 128

(***************************************************************************)
(* BLAKE2b: the last block stays in the buffer.                            *)
(***************************************************************************)
\* the bytes a BLAKE2b context has been given: the key block of
\* blake2b_init_key, if any, and then the input of every blake2b_update
Blake2bStream ==
  (IF b2.key = << >> THEN << >>
   ELSE [i \in 1..BLAKE2B_BLOCK_SIZE |-> IF i <= Len(b2.key) THEN b2.key[i] ELSE 0])
  \o b2.input

\* the length of the last block of the stream: 1 .. 128, and 0 for no bytes
Blake2bHeld ==
  IF Len(Blake2bStream) = 0 THEN 0
  ELSE ((Len(Blake2bStream) - 1) % BLAKE2B_BLOCK_SIZE) + 1

\* compression k of log took block k of the stream as a block that is not
\* the last: counter 128 * k, flag f[0] clear
NotLast(log, k) ==
  /\ log[k].m = Blake2bBlock(Blake2bStream, BLAKE2B_BLOCK_SIZE * (k - 1))
  /\ log[k].t[0] = BLAKE2B_BLOCK_SIZE * k
  /\ log[k].t[1] = 0
  /\ log[k].f[0] = Zero64

\* C27: after blake2b_init or blake2b_init_key and any sequence of
\* blake2b_update calls, bufferlen is in 0 .. 128 and at least 1 once a
\* key block or an input byte was absorbed: the buffer holds the last block
\* of the bytes absorbed, whole when that block is a full 128 bytes, every
\* block before it was compressed with f[0] clear, and f[0] is clear in the
\* context; blake2b_final alone compresses with f[0] set, its one block.
C27_LastBlockHeld ==
  /\ b2.op \in {"blake2b_init", "blake2b_init_key", "blake2b_update"} =>
       /\ b2.ctx.bufferlen \in 0..BLAKE2B_BLOCK_SIZE
       /\ Len(Blake2bStream) >= 1 => b2.ctx.bufferlen >= 1
       /\ b2.ctx.bufferlen = Blake2bHeld
       /\ BLAKE2B_BLOCK_SIZE * Len(b2.ctx.state.blocks) + b2.ctx.bufferlen
            = Len(Blake2bStream)
       /\ \A i \in 0..(b2.ctx.bufferlen - 1) :
            b2.ctx.buffer[i]
              = Blake2bStream[Len(Blake2bStream) - b2.ctx.bufferlen + i + 1]
       /\ \A k \in 1..Len(b2.ctx.state.blocks) : NotLast(b2.ctx.state.blocks, k)
       /\ b2.ctx.f[0] = Zero64
  /\ b2.op = "blake2b_final" =>
       /\ Len(b2.digest.state.blocks) >= 1
       /\ \A k \in 1..Len(b2.digest.state.blocks) :
            IF k = Len(b2.digest.state.blocks)
            THEN /\ b2.digest.state.blocks[k].f[0] = Ones64
                 /\ b2.digest.state.blocks[k].t[0] = Len(Blake2bStream)
            ELSE NotLast(b2.digest.state.blocks, k)

\* two updates of 128 bytes: the first block is compressed, the second is
\* held whole
C27_Witness ==
  /\ b2.op = "blake2b_update"
  /\ b2.key = << >>
  /\ Len(b2.input) = 2 * BLAKE2B_BLOCK_SIZE
  /\ b2.nupd = 2
  /\ Len(b2.ctx.state.blocks) = 1
  /\ b2.ctx.bufferlen = BLAKE2B_BLOCK_SIZE
  /\ b2.ctx.buffer[0] = MessageByte(BLAKE2B_BLOCK_SIZE)

\* a key block followed at once by the final: the key block is the last block
C27_KeyOnly ==
  /\ b2.op = "blake2b_final"
  /\ b2.key # << >>
  /\ b2.input = << >>
  /\ Len(b2.digest.state.blocks) = 1
  /\ b2.digest.state.blocks[1].t[0] = BLAKE2B_BLOCK_SIZE

(***************************************************************************)
(* ChaCha: the block counter.                                              *)
(***************************************************************************)
\* the 64-bit block counter of a context as eight bytes, least significant
\* first: input[12] is the low word, input[13] the high word
CounterBytes(c) ==
  << c.input[12][4], c.input[12][3], c.input[12][2], c.input[12][1],
     c.input[13][4], c.input[13][3], c.input[13][2], c.input[13][1] >>

\* the carry into byte i when n is added to the bytes
RECURSIVE CarryInto(_, _, _)
CarryInto(bytes, n, i) ==
  IF i = 1 THEN n ELSE (bytes[i - 1] + CarryInto(bytes, n, i - 1)) \div 256

\* bytes + n modulo 2^64
Advanced(bytes, n) == [i \in 1..8 |-> (bytes[i] + CarryInto(bytes, n, i)) % 256]

\* ceil(len / 64)
BlocksOf(len) == (len + 63) \div 64

\* C28: chacha_encrypt_bytes with len > 0 advances the 64-bit block counter
\* (input[13] high, input[12] low) by exactly ceil(len / 64) modulo 2^64,
\* with the carry into input[13] when input[12] wraps to 0, and leaves
\* input[0 .. 11] and input[14 .. 15] as they were; with len = 0 the context
\* is unchanged.
C28_CounterAdvance ==
  cha.op = "chacha_encrypt_bytes" =>
    /\ CounterBytes(cha.ctx) = Advanced(CounterBytes(cha.before), BlocksOf(cha.len))
    /\ \A i \in (0..11) \cup {14, 15} : cha.ctx.input[i] = cha.before.input[i]
    /\ DOMAIN cha.ctx.input = 0..15
    /\ cha.len = 0 => cha.ctx = cha.before

\* 65 bytes from the counter 0x00000000ffffffff: two counter values are
\* used, the second for one byte, and the low word wraps into the high word
C28_Witness ==
  /\ cha.op = "chacha_encrypt_bytes"
  /\ cha.len = 65
  /\ CounterBytes(cha.before) = <<255, 255, 255, 255, 0, 0, 0, 0>>
  /\ CounterBytes(cha.ctx) = <<1, 0, 0, 0, 1, 0, 0, 0>>

\* 130 bytes from the counter 0xfffffffffffffffe: the counter wraps to 1
C28_Wraps ==
  /\ cha.op = "chacha_encrypt_bytes"
  /\ cha.len = 130
  /\ CounterBytes(cha.before) = <<254, 255, 255, 255, 255, 255, 255, 255>>
  /\ CounterBytes(cha.ctx) = <<1, 0, 0, 0, 0, 0, 0, 0>>

(***************************************************************************)
(* ARC4: the state stays a permutation.                                    *)
(***************************************************************************)
\* state holds every value 0 .. 255, each at one index 0 .. 255
IsPermutation(state) ==
  /\ DOMAIN state = 0..255
  /\ {state[p] : p \in 0..255} = 0..255

\* the indices at which two arrays differ
Changed(s, t) == {p \in 0..255 : s[p] # t[p]}

\* t is s with two entries exchanged, or s itself when the two are the same
\* entry or hold the same value
Swapped(s, t) ==
  \/ Changed(s, t) = {}
  \/ \E a \in Changed(s, t), b \in Changed(s, t) :
       /\ a # b
       /\ Changed(s, t) = {a, b}
       /\ t[a] = s[b]
       /\ t[b] = s[a]

\* C29: after arc4_set_key with a key of one byte or more and after any
\* number of arc4_crypt calls of any lengths, ctx->state is a permutation of
\* 0 .. 255 and ctx->i and ctx->j are in 0 .. 255; every turn of the loops
\* changes state only by exchanging two of its entries.
C29_Permutation ==
  /\ [](arc.keyed =>
          /\ IsPermutation(arc.ctx.state)
          /\ arc.ctx.i \in 0..255
          /\ arc.ctx.j \in 0..255)
  /\ [][arc.pc \in {"arc4_set_key", "arc4_crypt"} =>
          Swapped(arc.ctx.state, arc'.ctx.state)]_vars

\* "Key" and "Plaintext": nine turns of arc4_crypt have run and the output
\* is bb f3 16 e8 d9 40 af 0a d3
C29_Witness ==
  /\ arc.keyed
  /\ arc.pc = "idle"
  /\ arc.key = <<75, 101, 121>>
  /\ arc.ncalls = 1
  /\ arc.n = 9
  /\ arc.ctx.i = 9
  /\ arc.dest = [p \in 0..8 |-> <<187, 243, 22, 232, 217, 64, 175, 10, 211>>[p + 1]]
=============================================================================
